---- MODULE Spec2Model ----
(***************************************************************************)
(* State-machine model of SmartDoorLockFSM (src/fsm_states.py).            *)
(*                                                                         *)
(* Time is counted in seconds since the engine was constructed.  The      *)
(* battery level is counted in hundredths of a percent (85.0 % = 8500).    *)
(* Python's None is the string "None" for states and values, and NoTime    *)
(* for timestamps.  An f-string is the pair <<text, interpolated value>>.  *)
(* The temperature and the motion/sound/light readings are written by      *)
(* _update_sensors and read by no handler; they are not part of the model. *)
(***************************************************************************)
EXTENDS Integers, Sequences, FiniteSets, TLC

VARIABLES
    current_state,       \* self.current_state
    previous_state,      \* self.previous_state
    state_history,       \* self.state_history
    battery_level,       \* self.battery_level, hundredths of a percent
    failed_attempts,     \* self.failed_attempts
    lockout_start_time,  \* self.lockout_start_time
    intrusion_detected,  \* self.intrusion_detected
    authorized_users,    \* self.authorized_users, in insertion order
    sensors,             \* self.sensors (door_sensor, proximity_sensor)
    last_unlock_time,    \* self.last_unlock_time
    auto_lock_delay,     \* self.auto_lock_delay, seconds
    emergency_log,       \* EmergencyProtocolManager(self).emergency_log
    legacy,              \* a CarDoorLockFSM: its state and current_state
    threads,             \* per thread, the process_trigger call it is in
    exclusive,           \* whether a call excludes every other call
    now,                 \* datetime.now()
    call,                \* the operation last called, with its arguments
    result,              \* what that operation returned (or raised)
    steps                \* calls made and clock advances so far

vars == <<current_state, previous_state, state_history, battery_level,
          failed_attempts, lockout_start_time, intrusion_detected,
          authorized_users, sensors, last_unlock_time, auto_lock_delay,
          emergency_log, legacy, threads, exclusive, now, call, result,
          steps>>

engineVars == <<current_state, previous_state, state_history, battery_level,
                failed_attempts, lockout_start_time, intrusion_detected,
                authorized_users, sensors, last_unlock_time, auto_lock_delay>>

(***************************************************************************)
(* Bounds of the exploration.                                              *)
(***************************************************************************)
MaxSteps == 3
MaxNow == 90000
UserLifetime == 60

(***************************************************************************)
(* Program constants.                                                      *)
(***************************************************************************)
InitialBattery == 8500
LowBatteryThreshold == 2000
DrainMin == 1
DrainMax == 5
MaxFailedAttempts == 3
LockoutDuration == 900
AutoLockDelay == 30
GuestLifetime == 86400
HistoryCap == 1000

NoTime == -1
None == "None"

LockState ==
    {"UNLOCKED", "LOCKED", "ARMED", "DISARMED", "TAMPERED", "MAINTENANCE",
     "LOW_BATTERY", "OFFLINE", "EMERGENCY_UNLOCK", "LOCKOUT", "GUEST_ACCESS",
     "ADMIN_OVERRIDE"}

TriggerType ==
    {"keypad", "biometric", "proximity", "mobile_app", "physical_key",
     "voice_command", "schedule", "geofence", "emergency", "admin", "system",
     "sensor"}

GUEST == 1
USER == 2
ADMIN == 3

(***************************************************************************)
(* _build_transition_matrix: (state, event) -> (new state, default reason) *)
(***************************************************************************)
Row(from, event, to, reason) ==
    [from |-> from, event |-> event, to |-> to, reason |-> reason]

TransitionMatrix ==
    { Row("DISARMED", "lock", "LOCKED", "Manual lock"),
      Row("DISARMED", "unlock", "UNLOCKED", "Manual unlock"),
      Row("DISARMED", "arm", "ARMED", "System armed"),
      Row("LOCKED", "unlock", "UNLOCKED", "Manual unlock"),
      Row("UNLOCKED", "lock", "LOCKED", "Manual lock"),
      Row("UNLOCKED", "auto_lock", "LOCKED", "Auto-lock timeout"),
      Row("ARMED", "disarm", "DISARMED", "System disarmed"),
      Row("ARMED", "intrusion", "TAMPERED", "Intrusion detected"),
      Row("LOCKED", "tamper", "TAMPERED", "Tampering detected"),
      Row("UNLOCKED", "tamper", "TAMPERED", "Tampering detected"),
      Row("TAMPERED", "reset", "LOCKED", "Security reset"),
      Row("LOCKOUT", "timeout", "LOCKED", "Lockout period expired"),
      Row("LOCKED", "maintenance", "MAINTENANCE", "Maintenance mode"),
      Row("UNLOCKED", "maintenance", "MAINTENANCE", "Maintenance mode"),
      Row("MAINTENANCE", "exit_maintenance", "LOCKED", "Maintenance complete"),
      Row("LOCKED", "low_battery", "LOW_BATTERY", "Battery low"),
      Row("LOW_BATTERY", "battery_replaced", "LOCKED", "Battery replaced"),
      Row("LOCKED", "emergency", "EMERGENCY_UNLOCK", "Emergency unlock"),
      Row("TAMPERED", "admin_override", "ADMIN_OVERRIDE", "Admin override"),
      Row("LOCKOUT", "admin_override", "ADMIN_OVERRIDE", "Admin override"),
      Row("ADMIN_OVERRIDE", "restore", "LOCKED", "Normal operation restored"),
      Row("LOCKED", "guest_unlock", "GUEST_ACCESS", "Guest access granted"),
      Row("GUEST_ACCESS", "guest_timeout", "LOCKED", "Guest access expired"),
      Row("LOCKED", "offline", "OFFLINE", "Connection lost"),
      Row("OFFLINE", "online", "LOCKED", "Connection restored") }

\* the matrix with a row that arms a locked door
TransitionRowsArmingLocked ==
    TransitionMatrix \cup { Row("LOCKED", "arm", "ARMED", "System armed") }

\* the matrix with a row out of EMERGENCY_UNLOCK
TransitionRowsTamperAfterEmergency ==
    TransitionMatrix \cup
    { Row("EMERGENCY_UNLOCK", "tamper", "TAMPERED", "Tampering detected") }

\* the matrix with rows for the "lockout" event
TransitionRowsWithLockout ==
    TransitionMatrix \cup
    { Row("DISARMED", "lockout", "LOCKOUT", "Too many failed attempts"),
      Row("LOCKED", "lockout", "LOCKOUT", "Too many failed attempts"),
      Row("UNLOCKED", "lockout", "LOCKOUT", "Too many failed attempts") }

\* self.transitions = self._build_transition_matrix()
TransitionRows == TransitionMatrix

\* transition_key in self.transitions
HasTransition(state, event) ==
    \E r \in TransitionRows : r.from = state /\ r.event = event

\* self.transitions[transition_key]
Transition(state, event) ==
    CHOOSE r \in TransitionRows : r.from = state /\ r.event = event

(***************************************************************************)
(* The engine as a record, so that a handler is an operator from engine to *)
(* engine.                                                                 *)
(***************************************************************************)
Engine ==
    [current_state |-> current_state,
     previous_state |-> previous_state,
     state_history |-> state_history,
     battery_level |-> battery_level,
     failed_attempts |-> failed_attempts,
     lockout_start_time |-> lockout_start_time,
     intrusion_detected |-> intrusion_detected,
     authorized_users |-> authorized_users,
     sensors |-> sensors,
     last_unlock_time |-> last_unlock_time,
     auto_lock_delay |-> auto_lock_delay]

SetEngine(e) ==
    /\ current_state' = e.current_state
    /\ previous_state' = e.previous_state
    /\ state_history' = e.state_history
    /\ battery_level' = e.battery_level
    /\ failed_attempts' = e.failed_attempts
    /\ lockout_start_time' = e.lockout_start_time
    /\ intrusion_detected' = e.intrusion_detected
    /\ authorized_users' = e.authorized_users
    /\ sensors' = e.sensors
    /\ last_unlock_time' = e.last_unlock_time
    /\ auto_lock_delay' = e.auto_lock_delay

StartsAs(e) ==
    /\ current_state = e.current_state
    /\ previous_state = e.previous_state
    /\ state_history = e.state_history
    /\ battery_level = e.battery_level
    /\ failed_attempts = e.failed_attempts
    /\ lockout_start_time = e.lockout_start_time
    /\ intrusion_detected = e.intrusion_detected
    /\ authorized_users = e.authorized_users
    /\ sensors = e.sensors
    /\ last_unlock_time = e.last_unlock_time
    /\ auto_lock_delay = e.auto_lock_delay

\* f"{text}{value}"
Fmt(text, value) == <<text, value>>
\* a plain string
Str(text) == <<text, "">>

\* a returned (bool, str) pair
Pair(success, message) ==
    [kind |-> "pair", success |-> success, message |-> message, value |-> None]
\* a call that falls off the end of its function and returns None
ReturnsNone ==
    [kind |-> "none", success |-> FALSE, message |-> Str("None"), value |-> None]
\* a call that raises
Raises(exception, what) ==
    [kind |-> "raise", success |-> FALSE, message |-> Fmt(exception, what),
     value |-> None]
\* a returned bool
Bool(b) == [kind |-> "bool", success |-> b, message |-> Str(""), value |-> None]
\* a returned dict
Dict(d) == [kind |-> "dict", success |-> TRUE, message |-> Str(""), value |-> d]
\* a function without a return statement, run to its end
Void == [kind |-> "void", success |-> TRUE, message |-> Str(""), value |-> None]

\* data.get(key, default)
Get(data, key, default) == IF key \in DOMAIN data THEN data[key] ELSE default

\* the truth value Python gives a value
Truthy(v) == v \notin {"False", None, ""}

(***************************************************************************)
(* _log_state_change                                                       *)
(***************************************************************************)
\* a history that is never cut
KeepAll(h) == h

\* a history that, once full, keeps its oldest entries and drops the new one
KeepFirst(h) ==
    IF Len(h) > HistoryCap THEN SubSeq(h, 1, HistoryCap) ELSE h

\* self.state_history[-1000:] once the length exceeds 1000
KeepLast(h) ==
    IF Len(h) > HistoryCap THEN SubSeq(h, Len(h) - HistoryCap + 1, Len(h)) ELSE h

LogStateChange(e, from_state, to_state, reason, t) ==
    LET log_entry == [timestamp |-> t,
                      from_state |-> from_state,
                      to_state |-> to_state,
                      reason |-> reason,
                      battery_level |-> e.battery_level,
                      sensors |-> e.sensors]
    IN  [e EXCEPT !.state_history = KeepLast(Append(@, log_entry))]

(***************************************************************************)
(* _handle_state_entry                                                     *)
(***************************************************************************)
\* a state entry that raises no intrusion flag
HandleStateEntryNoFlag(e, state, t) ==
    CASE state = "UNLOCKED" -> [e EXCEPT !.last_unlock_time = t]
      [] state = "LOCKOUT" -> [e EXCEPT !.lockout_start_time = t]
      [] OTHER -> e

HandleStateEntry(e, state, t) ==
    CASE state = "UNLOCKED" -> [e EXCEPT !.last_unlock_time = t]
      [] state = "LOCKOUT" -> [e EXCEPT !.lockout_start_time = t]
      [] state = "TAMPERED" -> [e EXCEPT !.intrusion_detected = TRUE]
      [] OTHER -> e

(***************************************************************************)
(* _transition_to: [ok |-> the returned bool, e |-> the engine afterwards] *)
(***************************************************************************)
\* a _transition_to that logs the attempt even when the table has no row
TransitionToLoggingMisses(e, event, reason, t) ==
    IF HasTransition(e.current_state, event)
    THEN LET row == Transition(e.current_state, event)
             actual_reason == IF reason # Str("") THEN reason ELSE Str(row.reason)
             logged == LogStateChange(e, e.current_state, row.to, actual_reason, t)
             moved == [logged EXCEPT !.previous_state = e.current_state,
                                     !.current_state = row.to]
         IN  [ok |-> TRUE, e |-> HandleStateEntry(moved, row.to, t)]
    ELSE [ok |-> FALSE,
          e |-> LogStateChange(e, e.current_state, e.current_state, reason, t)]

\* a _transition_to that ignores the caller's reason and forgets previous_state
TransitionToDefaultReason(e, event, reason, t) ==
    IF HasTransition(e.current_state, event)
    THEN LET row == Transition(e.current_state, event)
             logged == LogStateChange(e, e.current_state, row.to, Str(row.reason), t)
             moved == [logged EXCEPT !.current_state = row.to]
         IN  [ok |-> TRUE, e |-> HandleStateEntry(moved, row.to, t)]
    ELSE [ok |-> FALSE, e |-> e]

\* a _transition_to that writes current_state before it logs the change
TransitionToLoggingAfterMove(e, event, reason, t) ==
    IF HasTransition(e.current_state, event)
    THEN LET row == Transition(e.current_state, event)
             actual_reason == IF reason # Str("") THEN reason ELSE Str(row.reason)
             moved == [e EXCEPT !.previous_state = e.current_state,
                                !.current_state = row.to]
             logged == LogStateChange(moved, moved.current_state, row.to,
                                      actual_reason, t)
         IN  [ok |-> TRUE, e |-> HandleStateEntry(logged, row.to, t)]
    ELSE [ok |-> FALSE, e |-> e]

TransitionTo(e, event, reason, t) ==
    IF HasTransition(e.current_state, event)
    THEN LET row == Transition(e.current_state, event)
             actual_reason == IF reason # Str("") THEN reason ELSE Str(row.reason)
             logged == LogStateChange(e, e.current_state, row.to, actual_reason, t)
             moved == [logged EXCEPT !.previous_state = e.current_state,
                                     !.current_state = row.to]
         IN  [ok |-> TRUE, e |-> HandleStateEntry(moved, row.to, t)]
    ELSE [ok |-> FALSE, e |-> e]

(***************************************************************************)
(* The user registry: a dict, kept as the sequence of its items.           *)
(***************************************************************************)
User(id, level, code, biometric, expires) ==
    [id |-> id, level |-> level, code |-> code, biometric |-> biometric,
     expires |-> expires]

\* user_id in self.authorized_users
HasUser(users, user_id) == \E i \in 1..Len(users) : users[i].id = user_id

\* self.authorized_users[user_id]
UserData(users, user_id) ==
    users[CHOOSE i \in 1..Len(users) : users[i].id = user_id]

\* an _authenticate_code that never looks at the expiry
RECURSIVE AuthenticateCodeNoExpiry(_, _, _)
AuthenticateCodeNoExpiry(users, code, t) ==
    IF users = <<>> THEN None
    ELSE IF Head(users).code = code
         THEN Head(users).id
         ELSE AuthenticateCodeNoExpiry(Tail(users), code, t)

\* _authenticate_code: the first user with the code decides
RECURSIVE AuthenticateCode(_, _, _)
AuthenticateCode(users, code, t) ==
    IF users = <<>> THEN None
    ELSE LET user_data == Head(users)
         IN  IF user_data.code = code
             THEN IF user_data.expires # NoTime /\ t > user_data.expires
                  THEN None
                  ELSE user_data.id
             ELSE AuthenticateCode(Tail(users), code, t)

\* _authenticate_biometric: user_data.get("biometric") == biometric_data
RECURSIVE AuthenticateBiometric(_, _)
AuthenticateBiometric(users, biometric_data) ==
    IF users = <<>> THEN None
    ELSE IF Head(users).biometric = biometric_data
         THEN Head(users).id
         ELSE AuthenticateBiometric(Tail(users), biometric_data)

(***************************************************************************)
(* _is_in_lockout: [locked |-> the returned bool, e |-> engine afterwards] *)
(***************************************************************************)
\* an _is_in_lockout that never reports a lockout
IsInLockoutNever(e, t) == [locked |-> FALSE, e |-> e]

\* an _is_in_lockout whose window ends one instant late (> where the code has >=)
IsInLockoutStrict(e, t) ==
    IF e.current_state = "LOCKOUT"
    THEN IF e.lockout_start_time # NoTime
            /\ t - e.lockout_start_time > LockoutDuration
         THEN [locked |-> FALSE,
               e |-> TransitionTo(e, "timeout", Str("Lockout period expired"), t).e]
         ELSE [locked |-> TRUE, e |-> e]
    ELSE [locked |-> FALSE, e |-> e]

IsInLockout(e, t) ==
    IF e.current_state = "LOCKOUT"
    THEN IF e.lockout_start_time # NoTime
            /\ t - e.lockout_start_time >= LockoutDuration
         THEN [locked |-> FALSE,
               e |-> TransitionTo(e, "timeout", Str("Lockout period expired"), t).e]
         ELSE [locked |-> TRUE, e |-> e]
    ELSE [locked |-> FALSE, e |-> e]

(***************************************************************************)
(* _update_sensors; drain is the value random.uniform(0.01, 0.05) gave     *)
(***************************************************************************)
UpdateSensors(e, trigger_type, drain) ==
    LET s == CASE trigger_type = "proximity" ->
                    [e.sensors EXCEPT !.proximity_sensor = TRUE]
               [] trigger_type = "physical_key" ->
                    [e.sensors EXCEPT !.door_sensor = ~@]
               [] OTHER -> e.sensors
    IN  [e EXCEPT !.sensors = s, !.battery_level = @ - drain]

(***************************************************************************)
(* The handlers: [e |-> the engine afterwards, ret |-> what is returned]   *)
(***************************************************************************)
Out(e, ret) == [e |-> e, ret |-> ret]

\* success, message if success else failure
Report(tr, message, failure) ==
    Out(tr.e, Pair(tr.ok, IF tr.ok THEN message ELSE Str(failure)))

\* an unlock branch that leaves failed_attempts as it was
KeypadUnlockKeepingCount(e, user, t) ==
    LET tr == TransitionTo(e, "unlock", Fmt("Keypad unlock by ", user), t)
    IN  IF tr.ok
        THEN Out(tr.e, Pair(TRUE, Fmt("Unlocked by ", user)))
        ELSE Out(tr.e, Pair(FALSE, Str("Unlock failed")))

\* the unlock branches of _process_keypad_input (LOCKED and DISARMED)
KeypadUnlock(e, user, t) ==
    LET tr == TransitionTo(e, "unlock", Fmt("Keypad unlock by ", user), t)
    IN  IF tr.ok
        THEN Out([tr.e EXCEPT !.failed_attempts = 0],
                 Pair(TRUE, Fmt("Unlocked by ", user)))
        ELSE Out(tr.e, Pair(FALSE, Str("Unlock failed")))

\* a keypad failure that compares with > where the code compares with >=
KeypadFailureOffByOne(e, t) ==
    LET counted == [e EXCEPT !.failed_attempts = @ + 1]
    IN  IF counted.failed_attempts > MaxFailedAttempts
        THEN LET tr == TransitionTo(counted, "lockout",
                                    Str("Too many failed attempts"), t)
             IN  Out([tr.e EXCEPT !.lockout_start_time = t],
                     Pair(FALSE, Str("System locked due to failed attempts")))
        ELSE Out(counted,
                 Pair(FALSE, Fmt("Invalid code. attempts remaining: ",
                                 ToString(MaxFailedAttempts
                                          - counted.failed_attempts))))

\* the else branch of _process_keypad_input: no user has the code
KeypadFailure(e, t) ==
    LET counted == [e EXCEPT !.failed_attempts = @ + 1]
    IN  IF counted.failed_attempts >= MaxFailedAttempts
        THEN LET tr == TransitionTo(counted, "lockout",
                                    Str("Too many failed attempts"), t)
             IN  Out([tr.e EXCEPT !.lockout_start_time = t],
                     Pair(FALSE, Str("System locked due to failed attempts")))
        ELSE Out(counted,
                 Pair(FALSE, Fmt("Invalid code. attempts remaining: ",
                                 ToString(MaxFailedAttempts
                                          - counted.failed_attempts))))

ProcessKeypadInput(e, code, t) ==
    LET user == AuthenticateCode(e.authorized_users, code, t)
    IN  IF Truthy(user)
        THEN CASE e.current_state = "LOCKED" -> KeypadUnlock(e, user, t)
               [] e.current_state = "UNLOCKED" ->
                    Report(TransitionTo(e, "lock", Fmt("Keypad lock by ", user), t),
                           Fmt("Locked by ", user), "Lock failed")
               [] e.current_state = "DISARMED" -> KeypadUnlock(e, user, t)
               [] OTHER ->
                    Out(e, Pair(FALSE,
                                Fmt("Cannot process keypad input in current state: ",
                                    e.current_state)))
        ELSE KeypadFailure(e, t)

\* a biometric handler that stops counting at max_failed_attempts
ProcessBiometricInputCapped(e, biometric_data, t) ==
    LET user == AuthenticateBiometric(e.authorized_users, biometric_data)
    IN  IF Truthy(user)
        THEN CASE e.current_state = "LOCKED" ->
                    Report(TransitionTo(e, "unlock",
                                        Fmt("Biometric unlock by ", user), t),
                           Fmt("Biometric unlock by ", user), "Unlock failed")
               [] e.current_state = "UNLOCKED" ->
                    Report(TransitionTo(e, "lock",
                                        Fmt("Biometric lock by ", user), t),
                           Fmt("Biometric lock by ", user), "Lock failed")
               [] OTHER -> Out(e, ReturnsNone)
        ELSE Out([e EXCEPT !.failed_attempts =
                              IF @ < MaxFailedAttempts THEN @ + 1 ELSE @],
                 Pair(FALSE, Str("Biometric authentication failed")))

ProcessBiometricInput(e, biometric_data, t) ==
    LET user == AuthenticateBiometric(e.authorized_users, biometric_data)
    IN  IF Truthy(user)
        THEN CASE e.current_state = "LOCKED" ->
                    Report(TransitionTo(e, "unlock",
                                        Fmt("Biometric unlock by ", user), t),
                           Fmt("Biometric unlock by ", user), "Unlock failed")
               [] e.current_state = "UNLOCKED" ->
                    Report(TransitionTo(e, "lock",
                                        Fmt("Biometric lock by ", user), t),
                           Fmt("Biometric lock by ", user), "Lock failed")
               [] OTHER -> Out(e, ReturnsNone)
        ELSE Out([e EXCEPT !.failed_attempts = @ + 1],
                 Pair(FALSE, Str("Biometric authentication failed")))

\* a proximity handler that asks for no security level
ProcessProximityTriggerAnyLevel(e, user_id, t) ==
    IF /\ HasUser(e.authorized_users, user_id)
       /\ e.current_state = "LOCKED"
    THEN Report(TransitionTo(e, "unlock", Fmt("Proximity unlock by ", user_id), t),
                Fmt("Proximity unlock by ", user_id), "Unlock failed")
    ELSE Out(e, Pair(FALSE, Str("Unauthorized proximity access")))

\* a proximity handler that unlocks and then falls through to the rejection
ProcessProximityTriggerNoReturn(e, user_id, t) ==
    IF /\ HasUser(e.authorized_users, user_id)
       /\ UserData(e.authorized_users, user_id).level >= USER
       /\ e.current_state = "LOCKED"
    THEN Out(TransitionTo(e, "unlock", Fmt("Proximity unlock by ", user_id), t).e,
             Pair(FALSE, Str("Unauthorized proximity access")))
    ELSE Out(e, Pair(FALSE, Str("Unauthorized proximity access")))

ProcessProximityTrigger(e, user_id, t) ==
    IF /\ HasUser(e.authorized_users, user_id)
       /\ UserData(e.authorized_users, user_id).level >= USER
       /\ e.current_state = "LOCKED"
    THEN Report(TransitionTo(e, "unlock", Fmt("Proximity unlock by ", user_id), t),
                Fmt("Proximity unlock by ", user_id), "Unlock failed")
    ELSE Out(e, Pair(FALSE, Str("Unauthorized proximity access")))

\* a mobile-app handler that lets a user of any level arm and disarm
ProcessMobileAppCommandAnyLevel(e, command, user_id, t) ==
    IF ~HasUser(e.authorized_users, user_id)
    THEN Out(e, Pair(FALSE, Str("Unauthorized user")))
    ELSE CASE command = "unlock" /\ e.current_state = "LOCKED" ->
                Report(TransitionTo(e, "unlock",
                                    Fmt("Mobile app unlock by ", user_id), t),
                       Fmt("Mobile unlock by ", user_id), "Unlock failed")
           [] command = "lock" /\ e.current_state = "UNLOCKED" ->
                Report(TransitionTo(e, "lock",
                                    Fmt("Mobile app lock by ", user_id), t),
                       Fmt("Mobile lock by ", user_id), "Lock failed")
           [] command = "arm" ->
                Report(TransitionTo(e, "arm", Fmt("System armed by ", user_id), t),
                       Fmt("System armed by ", user_id), "Arm failed")
           [] command = "disarm" ->
                Report(TransitionTo(e, "disarm",
                                    Fmt("System disarmed by ", user_id), t),
                       Fmt("System disarmed by ", user_id), "Disarm failed")
           [] OTHER ->
                Out(e, Pair(FALSE,
                            Fmt("Invalid command or insufficient permissions: ",
                                command)))

ProcessMobileAppCommand(e, command, user_id, t) ==
    IF ~HasUser(e.authorized_users, user_id)
    THEN Out(e, Pair(FALSE, Str("Unauthorized user")))
    ELSE LET user_data == UserData(e.authorized_users, user_id)
         IN  CASE command = "unlock" /\ e.current_state = "LOCKED" ->
                    Report(TransitionTo(e, "unlock",
                                        Fmt("Mobile app unlock by ", user_id), t),
                           Fmt("Mobile unlock by ", user_id), "Unlock failed")
               [] command = "lock" /\ e.current_state = "UNLOCKED" ->
                    Report(TransitionTo(e, "lock",
                                        Fmt("Mobile app lock by ", user_id), t),
                           Fmt("Mobile lock by ", user_id), "Lock failed")
               [] command = "arm" /\ user_data.level >= USER ->
                    Report(TransitionTo(e, "arm",
                                        Fmt("System armed by ", user_id), t),
                           Fmt("System armed by ", user_id), "Arm failed")
               [] command = "disarm" /\ user_data.level >= USER ->
                    Report(TransitionTo(e, "disarm",
                                        Fmt("System disarmed by ", user_id), t),
                           Fmt("System disarmed by ", user_id), "Disarm failed")
               [] OTHER ->
                    Out(e, Pair(FALSE,
                                Fmt("Invalid command or insufficient permissions: ",
                                    command)))

\* a physical key that unlocks but does not lock
ProcessPhysicalKeyUnlockOnly(e, t) ==
    CASE e.current_state = "LOCKED" ->
            Report(TransitionTo(e, "unlock", Str("Physical key unlock"), t),
                   Str("Physical key unlock"), "Unlock failed")
      [] OTHER ->
            Out(e, Pair(FALSE, Str("Physical key not applicable in current state")))

ProcessPhysicalKey(e, t) ==
    CASE e.current_state = "LOCKED" ->
            Report(TransitionTo(e, "unlock", Str("Physical key unlock"), t),
                   Str("Physical key unlock"), "Unlock failed")
      [] e.current_state = "UNLOCKED" ->
            Report(TransitionTo(e, "lock", Str("Physical key lock"), t),
                   Str("Physical key lock"), "Lock failed")
      [] OTHER ->
            Out(e, Pair(FALSE, Str("Physical key not applicable in current state")))

\* an emergency handler that treats every subtype as an emergency
ProcessEmergencyTriggerAnySubtype(e, emergency_type, t) ==
    Report(TransitionTo(e, "emergency", Fmt("Emergency unlock: ", emergency_type), t),
           Fmt("Emergency unlock: ", emergency_type), "Emergency unlock failed")

ProcessEmergencyTrigger(e, emergency_type, t) ==
    CASE emergency_type = "fire_alarm" ->
            Report(TransitionTo(e, "emergency",
                                Str("Fire alarm emergency unlock"), t),
                   Str("Emergency unlock due to fire alarm"),
                   "Emergency unlock failed")
      [] emergency_type = "medical" ->
            Report(TransitionTo(e, "emergency", Str("Medical emergency unlock"), t),
                   Str("Emergency unlock for medical emergency"),
                   "Emergency unlock failed")
      [] emergency_type = "power_failure" ->
            Report(TransitionTo(e, "emergency",
                                Str("Power failure emergency unlock"), t),
                   Str("Emergency unlock due to power failure"),
                   "Emergency unlock failed")
      [] OTHER -> Out(e, Pair(FALSE, Fmt("Unknown emergency type: ", emergency_type)))

\* a system handler that auto-locks without waiting for the delay
ProcessSystemEventNoDelay(e, event, t) ==
    LET unknown == Out(e, Pair(FALSE, Fmt("Unknown system event: ", event)))
    IN  CASE event = "auto_lock" /\ e.current_state = "UNLOCKED" ->
                Report(TransitionTo(e, "auto_lock", Str("Auto-lock timeout"), t),
                       Str("Auto-lock engaged"), "Auto-lock failed")
          [] event = "low_battery" /\ e.battery_level < LowBatteryThreshold ->
                Report(TransitionTo(e, "low_battery",
                                    Fmt("Battery level: ",
                                        ToString(e.battery_level)), t),
                       Str("Low battery warning"), "Battery warning failed")
          [] event = "maintenance_mode" ->
                Report(TransitionTo(e, "maintenance", Str("Scheduled maintenance"), t),
                       Str("Maintenance mode activated"), "Maintenance mode failed")
          [] event = "connectivity_lost" ->
                Report(TransitionTo(e, "offline", Str("Network connection lost"), t),
                       Str("System offline"), "Offline transition failed")
          [] OTHER -> unknown

ProcessSystemEvent(e, event, t) ==
    LET unknown == Out(e, Pair(FALSE, Fmt("Unknown system event: ", event)))
    IN  CASE event = "auto_lock" /\ e.current_state = "UNLOCKED" ->
                IF /\ e.last_unlock_time # NoTime
                   /\ t - e.last_unlock_time >= e.auto_lock_delay
                THEN Report(TransitionTo(e, "auto_lock", Str("Auto-lock timeout"), t),
                            Str("Auto-lock engaged"), "Auto-lock failed")
                ELSE unknown
          [] event = "low_battery" /\ e.battery_level < LowBatteryThreshold ->
                Report(TransitionTo(e, "low_battery",
                                    Fmt("Battery level: ",
                                        ToString(e.battery_level)), t),
                       Str("Low battery warning"), "Battery warning failed")
          [] event = "maintenance_mode" ->
                Report(TransitionTo(e, "maintenance", Str("Scheduled maintenance"), t),
                       Str("Maintenance mode activated"), "Maintenance mode failed")
          [] event = "connectivity_lost" ->
                Report(TransitionTo(e, "offline", Str("Network connection lost"), t),
                       Str("System offline"), "Offline transition failed")
          [] OTHER -> unknown

\* a sensor handler that takes an opened door for tampering in any state
ProcessSensorEventDoorAnyState(e, sensor, value, t) ==
    LET none == Out(e, Pair(FALSE, <<"No action for sensor ", sensor, value>>))
    IN  CASE sensor = "tamper_sensor" /\ Truthy(value) ->
                Report(TransitionTo(e, "tamper",
                                    Str("Tampering detected by sensor"), t),
                       Str("Tamper alert activated"), "Tamper alert failed")
          [] /\ sensor = "motion_sensor"
             /\ Truthy(value)
             /\ e.current_state = "ARMED" ->
                Report(TransitionTo(e, "intrusion",
                                    Str("Motion detected while armed"), t),
                       Str("Intrusion detected"), "Intrusion detection failed")
          [] sensor = "door_sensor" /\ ~Truthy(value) ->
                Report(TransitionTo(e, "tamper", Str("Door opened while locked"), t),
                       Str("Unauthorized door opening"), "Door sensor alert failed")
          [] OTHER -> none

ProcessSensorEvent(e, sensor, value, t) ==
    LET none == Out(e, Pair(FALSE, <<"No action for sensor ", sensor, value>>))
    IN  CASE sensor = "tamper_sensor" /\ Truthy(value) ->
                Report(TransitionTo(e, "tamper",
                                    Str("Tampering detected by sensor"), t),
                       Str("Tamper alert activated"), "Tamper alert failed")
          [] /\ sensor = "motion_sensor"
             /\ Truthy(value)
             /\ e.current_state = "ARMED" ->
                Report(TransitionTo(e, "intrusion",
                                    Str("Motion detected while armed"), t),
                       Str("Intrusion detected"), "Intrusion detection failed")
          [] sensor = "door_sensor" /\ ~Truthy(value) ->
                IF e.current_state = "LOCKED"
                THEN Report(TransitionTo(e, "tamper",
                                         Str("Door opened while locked"), t),
                            Str("Unauthorized door opening"),
                            "Door sensor alert failed")
                ELSE none
          [] OTHER -> none

(***************************************************************************)
(* process_trigger                                                         *)
(***************************************************************************)
\* the dispatch of process_trigger, after the lockout gate and _update_sensors
Dispatch(e, trigger_type, data, t) ==
    CASE trigger_type = "keypad" -> ProcessKeypadInput(e, Get(data, "code", ""), t)
      [] trigger_type = "biometric" ->
            ProcessBiometricInput(e, Get(data, "biometric_data", ""), t)
      [] trigger_type = "proximity" ->
            ProcessProximityTrigger(e, Get(data, "user_id", ""), t)
      [] trigger_type = "mobile_app" ->
            ProcessMobileAppCommand(e, Get(data, "command", ""),
                                    Get(data, "user_id", ""), t)
      [] trigger_type = "physical_key" -> ProcessPhysicalKey(e, t)
      [] trigger_type = "schedule" ->
            \* self._process_scheduled_event is defined nowhere
            Out(e, Raises("AttributeError", "_process_scheduled_event"))
      [] trigger_type = "emergency" ->
            ProcessEmergencyTrigger(e, Get(data, "emergency_type", ""), t)
      [] trigger_type = "system" -> ProcessSystemEvent(e, Get(data, "event", ""), t)
      [] trigger_type = "sensor" ->
            ProcessSensorEvent(e, Get(data, "sensor", ""), Get(data, "value", None), t)
      [] OTHER -> Out(e, Pair(FALSE, Str("Unknown trigger type")))

\* a process_trigger that updates the sensors after the handler has run
ProcessTriggerDrainingLast(e, trigger_type, data, drain, t) ==
    LET gate == IsInLockout(e, t)
    IN  IF gate.locked
        THEN Out(gate.e, Pair(FALSE, Str("System is in lockout mode")))
        ELSE LET out == Dispatch(gate.e, trigger_type, data, t)
             IN  Out(UpdateSensors(out.e, trigger_type, drain), out.ret)

ProcessTrigger(e, trigger_type, data, drain, t) ==
    LET gate == IsInLockout(e, t)
    IN  IF gate.locked
        THEN Out(gate.e, Pair(FALSE, Str("System is in lockout mode")))
        ELSE Dispatch(UpdateSensors(gate.e, trigger_type, drain),
                      trigger_type, data, t)

(***************************************************************************)
(* get_system_status, add_user, remove_user, reset_security                *)
(***************************************************************************)
\* round(x, 1) of a level given in hundredths, as hundredths (a tie goes the
\* way the binary float falls; here it goes up)
Round1(x) == ((x + 5) \div 10) * 10

\* a status that reports the previous state as the current one
GetSystemStatusOfPreviousState(e, t) ==
    LET gate == IsInLockout(e, t)
    IN  Out(gate.e,
            Dict([current_state |-> e.previous_state,
                  previous_state |-> e.previous_state,
                  battery_level |-> Round1(e.battery_level),
                  failed_attempts |-> e.failed_attempts,
                  is_locked_out |-> gate.locked,
                  sensors |-> gate.e.sensors,
                  authorized_users |-> Len(gate.e.authorized_users),
                  intrusion_detected |-> gate.e.intrusion_detected]))

\* the dict literal reads the fields in its order: those before
\* "is_locked_out" see the engine before _is_in_lockout ran
GetSystemStatus(e, t) ==
    LET gate == IsInLockout(e, t)
    IN  Out(gate.e,
            Dict([current_state |-> e.current_state,
                  previous_state |-> e.previous_state,
                  battery_level |-> Round1(e.battery_level),
                  failed_attempts |-> e.failed_attempts,
                  is_locked_out |-> gate.locked,
                  sensors |-> gate.e.sensors,
                  authorized_users |-> Len(gate.e.authorized_users),
                  intrusion_detected |-> gate.e.intrusion_detected]))

\* self.authorized_users[user_id] = user_data
PutUser(users, user_data) ==
    IF HasUser(users, user_data.id)
    THEN [i \in 1..Len(users) |->
            IF users[i].id = user_data.id THEN user_data ELSE users[i]]
    ELSE Append(users, user_data)

AddUser(e, user_data) ==
    Out([e EXCEPT !.authorized_users = PutUser(@, user_data)], Void)

\* del self.authorized_users[user_id]
DelUser(users, user_id) == SelectSeq(users, LAMBDA u : u.id # user_id)

\* a remove_user that does not spare the admin
RemoveUserEvenAdmin(e, user_id) ==
    IF HasUser(e.authorized_users, user_id)
    THEN Out([e EXCEPT !.authorized_users = DelUser(@, user_id)], Bool(TRUE))
    ELSE Out(e, Bool(FALSE))

RemoveUser(e, user_id) ==
    IF HasUser(e.authorized_users, user_id) /\ user_id # "admin"
    THEN Out([e EXCEPT !.authorized_users = DelUser(@, user_id)], Bool(TRUE))
    ELSE Out(e, Bool(FALSE))

\* a reset that any authenticated user may ask for
ResetSecurityAnyUser(e, admin_code, t) ==
    IF AuthenticateCode(e.authorized_users, admin_code, t) # None
    THEN LET cleared == [e EXCEPT !.failed_attempts = 0,
                                  !.lockout_start_time = NoTime,
                                  !.intrusion_detected = FALSE]
         IN  IF cleared.current_state \in {"LOCKOUT", "TAMPERED"}
             THEN Out(TransitionTo(cleared, "reset",
                                   Str("Admin security reset"), t).e,
                      Bool(TRUE))
             ELSE Out(cleared, Bool(TRUE))
    ELSE Out(e, Bool(FALSE))

ResetSecurity(e, admin_code, t) ==
    IF AuthenticateCode(e.authorized_users, admin_code, t) = "admin"
    THEN LET cleared == [e EXCEPT !.failed_attempts = 0,
                                  !.lockout_start_time = NoTime,
                                  !.intrusion_detected = FALSE]
         IN  IF cleared.current_state \in {"LOCKOUT", "TAMPERED"}
             THEN Out(TransitionTo(cleared, "reset",
                                   Str("Admin security reset"), t).e,
                      Bool(TRUE))
             ELSE Out(cleared, Bool(TRUE))
    ELSE Out(e, Bool(FALSE))

(***************************************************************************)
(* The inputs the operations are called with.                              *)
(***************************************************************************)
EmptyPayload == <<>>

KeypadCodes == {"1234", "0000", "9999"}
BiometricData == {"admin_print", "bad_print", None}
UserIds == {"admin", "guest", "nobody"}
\* who comes near the door: the least entitled user, the guest and a stranger
ProximityIds == {"user1", "guest", "nobody"}
MobileCommands == {"unlock", "lock", "arm", "disarm"}
EmergencyTypes == {"fire_alarm", "medical", "power_failure", "emergency_unlock"}
SystemEvents ==
    {"auto_lock", "low_battery", "maintenance_mode", "connectivity_lost",
     "battery_replaced"}
SensorNames == {"tamper_sensor", "motion_sensor", "door_sensor"}
DrainChoices == {DrainMin, DrainMax}

Payloads(trigger_type) ==
    CASE trigger_type = "keypad" -> {[code |-> c] : c \in KeypadCodes}
      [] trigger_type = "biometric" ->
            {[biometric_data |-> b] : b \in BiometricData} \cup {EmptyPayload}
      [] trigger_type = "proximity" -> {[user_id |-> u] : u \in ProximityIds}
      [] trigger_type = "mobile_app" ->
            {[command |-> c, user_id |-> u] : c \in MobileCommands, u \in UserIds}
            \cup {[command |-> c, user_id |-> "user1"] : c \in {"arm", "disarm"}}
      [] trigger_type = "emergency" ->
            {[emergency_type |-> x] : x \in EmergencyTypes}
      [] trigger_type = "system" -> {[event |-> x] : x \in SystemEvents}
      [] trigger_type = "sensor" ->
            {[sensor |-> s, value |-> v] : s \in SensorNames, v \in {"True", "False"}}
            \cup {[sensor |-> "door_sensor"]}
      [] OTHER -> {EmptyPayload}

AddUserInputs(t) ==
    { User("temp", USER, "4321", "temp_print", NoTime),
      User("admin", ADMIN, "1234", "admin_print", t + UserLifetime) }

\* the instants at which some comparison of the code with the clock changes
ClockTargets ==
    UNION { IF last_unlock_time # NoTime
            THEN {last_unlock_time + auto_lock_delay - 1,
                  last_unlock_time + auto_lock_delay}
            ELSE {},
            IF lockout_start_time # NoTime
            THEN {lockout_start_time + LockoutDuration - 1,
                  lockout_start_time + LockoutDuration}
            ELSE {},
            UNION { IF authorized_users[i].expires # NoTime
                    THEN {authorized_users[i].expires,
                          authorized_users[i].expires + 1}
                    ELSE {} : i \in 1..Len(authorized_users) } }

(***************************************************************************)
(* The threads that call process_trigger on one engine.  A thread is idle, *)
(* or at a statement of the call it is making (pc), with the locals of     *)
(* that call.                                                              *)
(***************************************************************************)
Threads == {"t1", "t2"}

IdleThread ==
    [pc |-> "idle", trigger_type |-> "", data |-> EmptyPayload, drain |-> 0,
     event |-> None, reason |-> Str(""), new_state |-> None,
     message |-> Str(""), failure |-> ""]

NoThreads == [th \in Threads |-> IdleThread]

(***************************************************************************)
(* The legacy CarDoorLockFSM: __init__ and update; a returned string is    *)
(* the value of the result.                                                *)
(***************************************************************************)
CarDoorLockFSM == [state |-> "UNLOCKED", current_state |-> "UNLOCKED"]

\* a returned str
Text(s) == [kind |-> "str", success |-> TRUE, message |-> Str(""), value |-> s]

\* an update that keeps the doors locked until the key is taken out
UpdateLatching(l, key, brake, gear) ==
    IF \/ Truthy(key) /\ Truthy(brake) /\ gear \in {"D", "R"}
       \/ Truthy(key) /\ l.state = "LOCKED"
    THEN [l |-> [state |-> "LOCKED", current_state |-> "LOCKED"],
          ret |-> Text("LOCKED")]
    ELSE [l |-> [state |-> "UNLOCKED", current_state |-> "UNLOCKED"],
          ret |-> Text("UNLOCKED")]

\* [l |-> the object afterwards, ret |-> self.state as returned]
Update(l, key, brake, gear) ==
    IF Truthy(key) /\ Truthy(brake) /\ gear \in {"D", "R"}
    THEN [l |-> [state |-> "LOCKED", current_state |-> "LOCKED"],
          ret |-> Text("LOCKED")]
    ELSE [l |-> [state |-> "UNLOCKED", current_state |-> "UNLOCKED"],
          ret |-> Text("UNLOCKED")]

(***************************************************************************)
(* __init__                                                                *)
(***************************************************************************)
\* seed users of which the guest never expires
SeedUsersGuestForEver ==
    << User("admin", ADMIN, "1234", "admin_print", NoTime),
       User("user1", USER, "5678", "user1_print", NoTime),
       User("guest", GUEST, "0000", None, NoTime) >>

SeedUsers ==
    << User("admin", ADMIN, "1234", "admin_print", NoTime),
       User("user1", USER, "5678", "user1_print", NoTime),
       User("guest", GUEST, "0000", None, GuestLifetime) >>

Constructed ==
    LogStateChange(
        [current_state |-> "DISARMED",
         previous_state |-> None,
         state_history |-> <<>>,
         battery_level |-> InitialBattery,
         failed_attempts |-> 0,
         lockout_start_time |-> NoTime,
         intrusion_detected |-> FALSE,
         authorized_users |-> SeedUsers,
         sensors |-> [door_sensor |-> TRUE, proximity_sensor |-> FALSE],
         last_unlock_time |-> NoTime,
         auto_lock_delay |-> AutoLockDelay],
        None, "DISARMED", Str("System initialization"), 0)

Called(op, trigger_type, data) == [op |-> op, kind |-> trigger_type, data |-> data]

Init ==
    /\ StartsAs(Constructed)
    /\ now = 0
    /\ call = Called("__init__", "", EmptyPayload)
    /\ result = Void
    /\ steps = 0
    /\ emergency_log = <<>>
    /\ legacy = CarDoorLockFSM
    /\ threads = NoThreads
    /\ exclusive = TRUE

(***************************************************************************)
(* The operations.                                                         *)
(***************************************************************************)
Returns(out, op, trigger_type, data) ==
    /\ steps < MaxSteps
    /\ SetEngine(out.e)
    /\ call' = Called(op, trigger_type, data)
    /\ result' = out.ret
    /\ steps' = steps + 1
    /\ UNCHANGED <<now, emergency_log, legacy, threads, exclusive>>

CallProcessTrigger ==
    \E trigger_type \in TriggerType :
        \E data \in Payloads(trigger_type), drain \in DrainChoices :
            Returns(ProcessTrigger(Engine, trigger_type, data, drain, now),
                    "process_trigger", trigger_type, data)

CallGetSystemStatus ==
    Returns(GetSystemStatus(Engine, now), "get_system_status", "", EmptyPayload)

CallAddUser ==
    \E user_data \in AddUserInputs(now) :
        Returns(AddUser(Engine, user_data), "add_user", "", user_data)

CallRemoveUser ==
    \E user_id \in UserIds :
        Returns(RemoveUser(Engine, user_id), "remove_user", "", [user_id |-> user_id])

CallResetSecurity ==
    \E admin_code \in KeypadCodes :
        Returns(ResetSecurity(Engine, admin_code, now), "reset_security", "",
                [admin_code |-> admin_code])

\* time passes between two calls
Tick ==
    /\ steps < MaxSteps
    /\ \E t \in ClockTargets : t > now /\ t <= MaxNow /\ now' = t
    /\ steps' = steps + 1
    /\ UNCHANGED <<engineVars, emergency_log, legacy, threads, exclusive, call,
                   result>>

Next ==
    \/ CallProcessTrigger
    \/ CallGetSystemStatus
    \/ CallAddUser
    \/ CallRemoveUser
    \/ CallResetSecurity
    \/ Tick

Spec == Init /\ [][Next]_vars

(***************************************************************************)
(* The engine after an authorized keypad unlock and a physical-key lock:   *)
(* LOCKED with failed_attempts = 0.                                        *)
(***************************************************************************)
UnlockedByKeypad ==
    ProcessTrigger(Constructed, "keypad", [code |-> "1234"], DrainMin, 0)

LockedByKey ==
    ProcessTrigger(UnlockedByKeypad.e, "physical_key", EmptyPayload, DrainMin, 0)

InitLocked ==
    /\ StartsAs(LockedByKey.e)
    /\ now = 0
    /\ call = Called("process_trigger", "physical_key", EmptyPayload)
    /\ result = LockedByKey.ret
    /\ steps = 0
    /\ emergency_log = <<>>
    /\ legacy = CarDoorLockFSM
    /\ threads = NoThreads
    /\ exclusive = TRUE

SpecLocked == InitLocked /\ [][Next]_vars

(***************************************************************************)
(* The LOCKED engine with the battery run down to just above the low       *)
(* threshold (every process_trigger drains it, and the simulator drains it *)
(* each minute): the next drain may or may not take it below.              *)
(***************************************************************************)
NearlyLowBattery ==
    [LockedByKey.e EXCEPT !.battery_level = LowBatteryThreshold + DrainMin]

InitNearlyLowBattery ==
    /\ StartsAs(NearlyLowBattery)
    /\ now = 0
    /\ call = Called("process_trigger", "physical_key", EmptyPayload)
    /\ result = LockedByKey.ret
    /\ steps = 0
    /\ emergency_log = <<>>
    /\ legacy = CarDoorLockFSM
    /\ threads = NoThreads
    /\ exclusive = TRUE

NextTriggers ==
    \/ CallProcessTrigger
    \/ Tick

SpecNearlyLowBattery == InitNearlyLowBattery /\ [][NextTriggers]_vars

(***************************************************************************)
(* A long run of successful transitions: the admin's code is entered again *)
(* and again on a newly constructed engine (DISARMED -> UNLOCKED -> LOCKED *)
(* -> UNLOCKED ...), one second apart, each call draining the least.       *)
(***************************************************************************)
MaxTransitions == 1005

CallKeypadAdminCode ==
    /\ steps < MaxTransitions
    /\ LET data == [code |-> SeedUsers[1].code]
           out == ProcessTrigger(Engine, "keypad", data, DrainMin, now)
       IN  /\ SetEngine(out.e)
           /\ call' = Called("process_trigger", "keypad", data)
           /\ result' = out.ret
    /\ steps' = steps + 1
    /\ now' = now + 1
    /\ UNCHANGED <<emergency_log, legacy, threads, exclusive>>

NextHistory == CallKeypadAdminCode

SpecHistory == Init /\ [][NextHistory]_vars

(***************************************************************************)
(* A long run of calls that only drain: a voice command, which no handler  *)
(* takes, is sent again and again to a newly constructed engine, each call *)
(* draining the most.                                                      *)
(***************************************************************************)
MaxDrainCalls == 1701

CallVoiceCommand ==
    /\ steps < MaxDrainCalls
    /\ LET out == ProcessTrigger(Engine, "voice_command", EmptyPayload, DrainMax, now)
       IN  /\ SetEngine(out.e)
           /\ call' = Called("process_trigger", "voice_command", EmptyPayload)
           /\ result' = out.ret
    /\ steps' = steps + 1
    /\ UNCHANGED <<now, emergency_log, legacy, threads, exclusive>>

NextDrain == CallVoiceCommand

SpecDrain == Init /\ [][NextDrain]_vars

(***************************************************************************)
(* The engine in LOCKOUT: what _transition_to and _handle_state_entry make *)
(* of a LOCKED engine on an event leading to LOCKOUT, after the third      *)
(* failed attempt.                                                         *)
(***************************************************************************)
InLockout ==
    LET counted == [LockedByKey.e EXCEPT !.failed_attempts = MaxFailedAttempts]
        logged == LogStateChange(counted, "LOCKED", "LOCKOUT",
                                 Str("Too many failed attempts"), 0)
        moved == [logged EXCEPT !.previous_state = "LOCKED",
                                !.current_state = "LOCKOUT"]
    IN  HandleStateEntry(moved, "LOCKOUT", 0)

InitLockout ==
    /\ StartsAs(InLockout)
    /\ now = 0
    /\ call = Called("process_trigger", "keypad", [code |-> "9999"])
    /\ result = Pair(FALSE, Str("System locked due to failed attempts"))
    /\ steps = 0
    /\ emergency_log = <<>>
    /\ legacy = CarDoorLockFSM
    /\ threads = NoThreads
    /\ exclusive = TRUE

SpecLockout == InitLockout /\ [][Next]_vars

(***************************************************************************)
(* _transition_to called on its own: current_state ranges over LockState,  *)
(* the event over the events of the table and two that have no row.        *)
(***************************************************************************)
TransitionEvents == {r.event : r \in TransitionMatrix} \cup {"lockout", "emergency_lock"}

Reasons == {Str(""), Str("Requested by caller")}

CallTransitionTo ==
    \E event \in TransitionEvents, reason \in Reasons :
        LET tr == TransitionTo(Engine, event, reason, now)
        IN  Returns(Out(tr.e, Bool(tr.ok)), "_transition_to", "",
                    [event |-> event, reason |-> reason])

InitTransition ==
    /\ \E s \in LockState : StartsAs([Constructed EXCEPT !.current_state = s])
    /\ now = 0
    /\ call = Called("__init__", "", EmptyPayload)
    /\ result = Void
    /\ steps = 0
    /\ emergency_log = <<>>
    /\ legacy = CarDoorLockFSM
    /\ threads = NoThreads
    /\ exclusive = TRUE

NextTransition == CallTransitionTo

SpecTransition == InitTransition /\ [][NextTransition]_vars

(***************************************************************************)
(* The engine in each of the states that the table gives no way out of by  *)
(* a trigger: a LOCKED engine after a tamper alert, an emergency, a        *)
(* maintenance request, a low-battery warning or a loss of connectivity.   *)
(***************************************************************************)
SpecialStates ==
    {"TAMPERED", "EMERGENCY_UNLOCK", "MAINTENANCE", "LOW_BATTERY", "OFFLINE"}

EntriesToSpecialStates ==
    { [from |-> LockedByKey.e, kind |-> "sensor",
       data |-> [sensor |-> "tamper_sensor", value |-> "True"]],
      [from |-> LockedByKey.e, kind |-> "emergency",
       data |-> [emergency_type |-> "fire_alarm"]],
      [from |-> LockedByKey.e, kind |-> "system",
       data |-> [event |-> "maintenance_mode"]],
      [from |-> NearlyLowBattery, kind |-> "system",
       data |-> [event |-> "low_battery"]],
      [from |-> LockedByKey.e, kind |-> "system",
       data |-> [event |-> "connectivity_lost"]] }

InitSpecialState ==
    /\ \E entry \in EntriesToSpecialStates :
          LET out == ProcessTrigger(entry.from, entry.kind, entry.data, DrainMax, 0)
          IN  /\ StartsAs(out.e)
              /\ call = Called("process_trigger", entry.kind, entry.data)
              /\ result = out.ret
    /\ now = 0
    /\ steps = 0
    /\ emergency_log = <<>>
    /\ legacy = CarDoorLockFSM
    /\ threads = NoThreads
    /\ exclusive = TRUE

SpecSpecialState == InitSpecialState /\ [][Next]_vars

(***************************************************************************)
(* The new engine after two wrong keypad codes: failed_attempts is one     *)
(* short of max_failed_attempts.                                           *)
(***************************************************************************)
WrongCode == [code |-> "9999"]

TwoWrongCodes ==
    ProcessTrigger(ProcessTrigger(Constructed, "keypad", WrongCode, DrainMin, 0).e,
                   "keypad", WrongCode, DrainMin, 0)

InitTwoFailures ==
    /\ StartsAs(TwoWrongCodes.e)
    /\ now = 0
    /\ call = Called("process_trigger", "keypad", WrongCode)
    /\ result = TwoWrongCodes.ret
    /\ steps = 0
    /\ emergency_log = <<>>
    /\ legacy = CarDoorLockFSM
    /\ threads = NoThreads
    /\ exclusive = TRUE

SpecTwoFailures == InitTwoFailures /\ [][Next]_vars

(***************************************************************************)
(* The legacy class on its own: update called again and again on one       *)
(* CarDoorLockFSM, with the truth values Python takes key and brake for    *)
(* and the gears of the selector (and one the comparison does not know).   *)
(***************************************************************************)
Flags == {"True", "False", None, "key"}
Gears == {"P", "R", "N", "D", "d"}

CallUpdate ==
    /\ steps < MaxSteps
    /\ \E key \in Flags, brake \in Flags, gear \in Gears :
          LET out == Update(legacy, key, brake, gear)
          IN  /\ legacy' = out.l
              /\ call' = Called("update", "",
                                [key |-> key, brake |-> brake, gear |-> gear])
              /\ result' = out.ret
    /\ steps' = steps + 1
    /\ UNCHANGED <<engineVars, emergency_log, threads, exclusive, now>>

NextLegacy == CallUpdate

SpecLegacy == Init /\ [][NextLegacy]_vars

(***************************************************************************)
(* EmergencyProtocolManager (src/emergency_protocols.py), for the          *)
(* emergencies whose protocol action is an unlock.                         *)
(***************************************************************************)
\* timedelta(hours=24), and timedelta(days=1), in seconds
ExtendedAutoLockDelay == 86400

\* EmergencyType values whose protocol action calls _emergency_unlock
UnlockingEmergencies == {"fire_alarm", "medical_emergency", "natural_disaster"}

\* self.emergency_protocols[emergency_type]: the entries that are read
EmergencyProtocols(emergency_type) ==
    CASE emergency_type = "fire_alarm" ->
            [action |-> "immediate_unlock", auto_disable_relock |-> TRUE]
      [] emergency_type = "medical_emergency" ->
            [action |-> "immediate_unlock", auto_disable_relock |-> FALSE]
      [] emergency_type = "natural_disaster" ->
            [action |-> "emergency_unlock", auto_disable_relock |-> FALSE]

\* what _emergency_unlock sends to the engine
EmergencyUnlockPayload == [emergency_type |-> "emergency_unlock"]

\* _emergency_unlock: [ok |-> the returned bool, e |-> the engine afterwards]
EmergencyUnlock(e, drain, t) ==
    LET out == ProcessTrigger(e, "emergency", EmergencyUnlockPayload, drain, t)
    IN  IF out.ret.success
        THEN [ok |-> TRUE,
              e |-> [out.e EXCEPT !.auto_lock_delay = ExtendedAutoLockDelay]]
        ELSE [ok |-> FALSE, e |-> out.e]

\* _execute_emergency_action, for immediate_unlock and emergency_unlock
ExecuteEmergencyAction(e, action, drain, t) ==
    IF action \in {"immediate_unlock", "emergency_unlock"}
    THEN EmergencyUnlock(e, drain, t)
    ELSE [ok |-> FALSE, e |-> e]

\* _apply_protocol_measures: of the measures, _disable_auto_relock writes
\* to the engine
ApplyProtocolMeasures(e, protocol) ==
    IF protocol.auto_disable_relock
    THEN [e EXCEPT !.auto_lock_delay = ExtendedAutoLockDelay]
    ELSE e

\* handle_emergency once the action has been executed, with the system
\* status taken before it: [e |-> the engine afterwards, log |->
\* emergency_log afterwards, ret |-> the returned pair]
ConcludeEmergency(acted, protocol, log, emergency_type, t) ==
    IF acted.ok
    THEN [e |-> GetSystemStatus(ApplyProtocolMeasures(acted.e, protocol), t).e,
          log |-> Append(log, [emergency_type |-> emergency_type,
                               action_result |-> "success"]),
          ret |-> Pair(TRUE,
                       Fmt("Emergency protocol executed successfully for ",
                           emergency_type))]
    ELSE [e |-> acted.e,
          log |-> Append(log, [emergency_type |-> emergency_type,
                               action_result |-> "failed"]),
          ret |-> Pair(FALSE,
                       Fmt("Failed to execute emergency protocol for ",
                           emergency_type))]

\* handle_emergency: the status before (self.fsm.get_system_status()), the
\* action, then the rest; each is computed once, from the one before
HandleEmergency(e, log, emergency_type, drain, t) ==
    LET protocol == EmergencyProtocols(emergency_type)
    IN  CHOOSE out \in
            { ConcludeEmergency(acted, protocol, log, emergency_type, t) :
                acted \in { ExecuteEmergencyAction(before.e, protocol.action,
                                                   drain, t) :
                              before \in {GetSystemStatus(e, t)} } } : TRUE

CallHandleEmergency ==
    /\ steps < MaxSteps
    /\ \E emergency_type \in UnlockingEmergencies, drain \in DrainChoices :
          \E out \in {HandleEmergency(Engine, emergency_log, emergency_type,
                                      drain, now)} :
              /\ SetEngine(out.e)
              /\ emergency_log' = out.log
              /\ call' = Called("handle_emergency", "",
                                [emergency_type |-> emergency_type])
              /\ result' = out.ret
    /\ steps' = steps + 1
    /\ UNCHANGED <<now, legacy, threads, exclusive>>

NextEmergency == CallHandleEmergency

\* an EmergencyProtocolManager made for the LOCKED engine
SpecEmergency == InitLocked /\ [][NextEmergency]_vars

(***************************************************************************)
(* process_trigger statement by statement, so that the calls of two        *)
(* threads may interleave: the lockout gate with _update_sensors, the      *)
(* handler's test of current_state, then _transition_to's lookup, its log  *)
(* entry, its two writes and the state entry.  With exclusive, a call is   *)
(* entered only while no other call is in progress.                        *)
(***************************************************************************)
ConcurrentTriggers ==
    { [trigger_type |-> "physical_key", data |-> EmptyPayload],
      [trigger_type |-> "emergency", data |-> [emergency_type |-> "fire_alarm"]],
      [trigger_type |-> "sensor",
       data |-> [sensor |-> "tamper_sensor", value |-> "True"]] }

\* what the handler of the trigger passes to _transition_to in the state it
\* finds, and what it returns on success and on failure; event None: the
\* handler returns without a transition
Decision(e, trigger_type) ==
    CASE trigger_type = "physical_key" /\ e.current_state = "LOCKED" ->
            [event |-> "unlock", reason |-> Str("Physical key unlock"),
             message |-> Str("Physical key unlock"), failure |-> "Unlock failed"]
      [] trigger_type = "physical_key" /\ e.current_state = "UNLOCKED" ->
            [event |-> "lock", reason |-> Str("Physical key lock"),
             message |-> Str("Physical key lock"), failure |-> "Lock failed"]
      [] /\ trigger_type = "physical_key"
         /\ e.current_state \notin {"LOCKED", "UNLOCKED"} ->
            [event |-> None, reason |-> Str(""),
             message |-> Str("Physical key not applicable in current state"),
             failure |-> ""]
      [] trigger_type = "emergency" ->
            [event |-> "emergency", reason |-> Str("Fire alarm emergency unlock"),
             message |-> Str("Emergency unlock due to fire alarm"),
             failure |-> "Emergency unlock failed"]
      [] trigger_type = "sensor" ->
            [event |-> "tamper", reason |-> Str("Tampering detected by sensor"),
             message |-> Str("Tamper alert activated"),
             failure |-> "Tamper alert failed"]

\* a _transition_to that leaves previous_state as it was
SetPreviousStateSkipped(e) == e

\* self.previous_state = self.current_state
SetPreviousState(e) == [e EXCEPT !.previous_state = e.current_state]

\* self.current_state = new_state
SetCurrentState(e, new_state) == [e EXCEPT !.current_state = new_state]

\* the thread is at the statement pc of its call
At(th, pc) == threads[th].pc = pc

\* the thread moves on to the statement pc
Goto(th, pc) == threads' = [threads EXCEPT ![th].pc = pc]

\* the call of the thread returns
Return(th, ret) ==
    /\ threads' = [threads EXCEPT ![th] = IdleThread]
    /\ result' = ret

\* what no statement of a call writes
callFrame == <<emergency_log, legacy, exclusive, now, steps, call>>

\* a thread calls process_trigger (each call draining the least); with
\* exclusive, only while no other thread is in a call
Enter(th) ==
    /\ At(th, "idle")
    /\ exclusive => \A other \in Threads : At(other, "idle")
    /\ steps < MaxSteps
    /\ \E trigger \in ConcurrentTriggers :
          /\ threads' = [threads EXCEPT ![th] =
                            [IdleThread EXCEPT !.pc = "gate",
                                               !.trigger_type = trigger.trigger_type,
                                               !.data = trigger.data,
                                               !.drain = DrainMin]]
          /\ call' = Called("process_trigger", trigger.trigger_type, trigger.data)
    /\ steps' = steps + 1
    /\ UNCHANGED <<engineVars, emergency_log, legacy, exclusive, now, result>>

\* if self._is_in_lockout(): return ...; self._update_sensors(...)
Gate(th) ==
    /\ At(th, "gate")
    /\ LET gate == IsInLockout(Engine, now)
       IN  IF gate.locked
           THEN /\ SetEngine(gate.e)
                /\ Return(th, Pair(FALSE, Str("System is in lockout mode")))
           ELSE /\ SetEngine(UpdateSensors(gate.e, threads[th].trigger_type,
                                           threads[th].drain))
                /\ Goto(th, "handler")
                /\ UNCHANGED result
    /\ UNCHANGED callFrame

\* the handler reads current_state and settles on an event
Handler(th) ==
    /\ At(th, "handler")
    /\ LET d == Decision(Engine, threads[th].trigger_type)
       IN  IF d.event = None
           THEN Return(th, Pair(FALSE, d.message))
           ELSE /\ threads' = [threads EXCEPT ![th].pc = "lookup",
                                              ![th].event = d.event,
                                              ![th].reason = d.reason,
                                              ![th].message = d.message,
                                              ![th].failure = d.failure]
                /\ UNCHANGED result
    /\ UNCHANGED <<engineVars, callFrame>>

\* transition_key = (self.current_state, event) and the lookup in the table
Lookup(th) ==
    /\ At(th, "lookup")
    /\ IF HasTransition(current_state, threads[th].event)
       THEN LET row == Transition(current_state, threads[th].event)
            IN  /\ threads' = [threads EXCEPT
                                  ![th].pc = "log",
                                  ![th].new_state = row.to,
                                  ![th].reason = IF @ # Str("") THEN @
                                                 ELSE Str(row.reason)]
                /\ UNCHANGED result
       ELSE Return(th, Pair(FALSE, Str(threads[th].failure)))
    /\ UNCHANGED <<engineVars, callFrame>>

\* self._log_state_change(self.current_state, new_state, actual_reason)
Log(th) ==
    /\ At(th, "log")
    /\ SetEngine(LogStateChange(Engine, current_state, threads[th].new_state,
                                threads[th].reason, now))
    /\ Goto(th, "previous")
    /\ UNCHANGED <<result, callFrame>>

\* self.previous_state = self.current_state
Previous(th) ==
    /\ At(th, "previous")
    /\ SetEngine(SetPreviousState(Engine))
    /\ Goto(th, "current")
    /\ UNCHANGED <<result, callFrame>>

\* self.current_state = new_state
Current(th) ==
    /\ At(th, "current")
    /\ SetEngine(SetCurrentState(Engine, threads[th].new_state))
    /\ Goto(th, "entry")
    /\ UNCHANGED <<result, callFrame>>

\* self._handle_state_entry(new_state), and the handler returns success
Entry(th) ==
    /\ At(th, "entry")
    /\ SetEngine(HandleStateEntry(Engine, threads[th].new_state, now))
    /\ Return(th, Pair(TRUE, threads[th].message))
    /\ UNCHANGED callFrame

InitConcurrent ==
    /\ StartsAs(LockedByKey.e)
    /\ now = 0
    /\ call = Called("process_trigger", "physical_key", EmptyPayload)
    /\ result = LockedByKey.ret
    /\ steps = 0
    /\ emergency_log = <<>>
    /\ legacy = CarDoorLockFSM
    /\ threads = NoThreads
    /\ exclusive \in BOOLEAN

NextConcurrent ==
    \E th \in Threads :
        \/ Enter(th)
        \/ Gate(th)
        \/ Handler(th)
        \/ Lookup(th)
        \/ Log(th)
        \/ Previous(th)
        \/ Current(th)
        \/ Entry(th)

SpecConcurrent == InitConcurrent /\ [][NextConcurrent]_vars

(***************************************************************************)
(* What the claims speak of.                                               *)
(***************************************************************************)
\* the step is a call of op (a clock advance leaves call as it was)
Calling(op) == steps' = steps + 1 /\ now' = now /\ call'.op = op

\* the step is a process_trigger call of the given kind
Triggering(trigger_type) == Calling("process_trigger") /\ call'.kind = trigger_type

\* the last call was a process_trigger of the given kind
Triggered(trigger_type) == call.op = "process_trigger" /\ call.kind = trigger_type

\* the message of the keypad rejection that counts the last allowed attempt
LockedMessage == Str("System locked due to failed attempts")

\* the fields a rejection is said to leave alone, the lockout window apart
rejectionFrame ==
    <<current_state, previous_state, state_history, last_unlock_time,
      intrusion_detected, authorized_users>>

(***************************************************************************)
(* C1: once failed keypad attempts bring failed_attempts to                *)
(* max_failed_attempts, the engine is in LOCKOUT (and rejects every        *)
(* trigger until the lockout duration has elapsed).                        *)
(***************************************************************************)
C1_LockoutAfterMaxFailedAttempts ==
    ( /\ Triggered("keypad")
      /\ AuthenticateCode(authorized_users, call.data.code, now) = None
      /\ failed_attempts >= MaxFailedAttempts )
    => current_state = "LOCKOUT"

(***************************************************************************)
(* C2: in every state reachable from a newly constructed engine,           *)
(* current_state is never LOCKOUT, GUEST_ACCESS or ADMIN_OVERRIDE.         *)
(***************************************************************************)
C2_NeverLockoutGuestAccessAdminOverride ==
    current_state \notin {"LOCKOUT", "GUEST_ACCESS", "ADMIN_OVERRIDE"}

\* the lockout transition was attempted: the failed attempts reached the maximum
C2_LockoutAttempted ==
    /\ Triggered("keypad")
    /\ result = Pair(FALSE, LockedMessage)
    /\ failed_attempts = MaxFailedAttempts
    /\ current_state = "DISARMED"

(***************************************************************************)
(* C3: for every (current_state, event) without a row in the table,        *)
(* _transition_to returns false and changes no field of the engine.        *)
(***************************************************************************)
C3_NoRowNoEffect ==
    [][ ( /\ Calling("_transition_to")
          /\ ~HasTransition(current_state, call'.data.event) )
        => (result' = Bool(FALSE) /\ UNCHANGED engineVars) ]_vars

\* _transition_to was called in LOCKED with the event "lockout", which has no row
C3_LockoutEventRefused ==
    /\ call.op = "_transition_to"
    /\ call.data.event = "lockout"
    /\ current_state = "LOCKED"
    /\ result = Bool(FALSE)

(***************************************************************************)
(* C4: for every (current_state, event) with a row in the table,           *)
(* _transition_to returns true, moves current_state to the row's target    *)
(* and the old current_state to previous_state, and appends exactly one    *)
(* history entry (from the old state, to the target, reason the caller's   *)
(* if it is non-empty and the row's default otherwise); the rows are the   *)
(* 25 of the table of section 4.1.                                         *)
(***************************************************************************)
C4_SpecTable ==
    { <<"DISARMED", "lock", "LOCKED">>, <<"DISARMED", "unlock", "UNLOCKED">>,
      <<"DISARMED", "arm", "ARMED">>, <<"LOCKED", "unlock", "UNLOCKED">>,
      <<"UNLOCKED", "lock", "LOCKED">>, <<"UNLOCKED", "auto_lock", "LOCKED">>,
      <<"ARMED", "disarm", "DISARMED">>, <<"ARMED", "intrusion", "TAMPERED">>,
      <<"LOCKED", "tamper", "TAMPERED">>, <<"UNLOCKED", "tamper", "TAMPERED">>,
      <<"TAMPERED", "reset", "LOCKED">>, <<"LOCKOUT", "timeout", "LOCKED">>,
      <<"LOCKED", "maintenance", "MAINTENANCE">>,
      <<"UNLOCKED", "maintenance", "MAINTENANCE">>,
      <<"MAINTENANCE", "exit_maintenance", "LOCKED">>,
      <<"LOCKED", "low_battery", "LOW_BATTERY">>,
      <<"LOW_BATTERY", "battery_replaced", "LOCKED">>,
      <<"LOCKED", "emergency", "EMERGENCY_UNLOCK">>,
      <<"TAMPERED", "admin_override", "ADMIN_OVERRIDE">>,
      <<"LOCKOUT", "admin_override", "ADMIN_OVERRIDE">>,
      <<"ADMIN_OVERRIDE", "restore", "LOCKED">>,
      <<"LOCKED", "guest_unlock", "GUEST_ACCESS">>,
      <<"GUEST_ACCESS", "guest_timeout", "LOCKED">>,
      <<"LOCKED", "offline", "OFFLINE">>, <<"OFFLINE", "online", "LOCKED">> }

C4_RowTaken ==
    [][ /\ {<<r.from, r.event, r.to>> : r \in TransitionRows} = C4_SpecTable
        /\ Cardinality(TransitionRows) = 25
        /\ ( /\ Calling("_transition_to")
             /\ HasTransition(current_state, call'.data.event) )
           => LET row == Transition(current_state, call'.data.event)
                  last == state_history'[Len(state_history')]
              IN  /\ result' = Bool(TRUE)
                  /\ current_state' = row.to
                  /\ previous_state' = current_state
                  /\ Len(state_history') = Len(state_history) + 1
                  /\ SubSeq(state_history', 1, Len(state_history)) = state_history
                  /\ last.from_state = current_state
                  /\ last.to_state = row.to
                  /\ last.reason = IF call'.data.reason # Str("")
                                   THEN call'.data.reason
                                   ELSE Str(row.reason) ]_vars

\* LOCKOUT was left on "timeout" with the default reason, and with a reason given
C4_TimeoutRowTaken ==
    /\ call.op = "_transition_to"
    /\ call.data.event = "timeout"
    /\ call.data.reason = Str("")
    /\ result = Bool(TRUE)
    /\ previous_state = "LOCKOUT"
    /\ current_state = "LOCKED"
    /\ state_history[Len(state_history)].reason = Str("Lockout period expired")

(***************************************************************************)
(* C5: from LOCKED with failed_attempts = 0, each keypad trigger whose     *)
(* code authenticates no user raises failed_attempts by exactly 1 and      *)
(* leaves current_state LOCKED and the history as it was; the one that     *)
(* brings failed_attempts to 3 returns (false, "System locked due to       *)
(* failed attempts").                                                      *)
(***************************************************************************)
C5_FailedKeypadInLocked ==
    [][ ( /\ Triggering("keypad")
          /\ current_state = "LOCKED"
          /\ AuthenticateCode(authorized_users, call'.data.code, now) = None )
        => /\ failed_attempts' = failed_attempts + 1
           /\ current_state' = "LOCKED"
           /\ state_history' = state_history
           /\ result'.kind = "pair" /\ ~result'.success
           /\ (failed_attempts' = MaxFailedAttempts
                 => result' = Pair(FALSE, LockedMessage))
           /\ (failed_attempts' < MaxFailedAttempts
                 => result' # Pair(FALSE, LockedMessage)) ]_vars

\* three calls after LOCKED with no failed attempt: the third wrong code
C5_ThirdWrongCode ==
    /\ Triggered("keypad")
    /\ call.data.code = "9999"
    /\ steps = 3
    /\ failed_attempts = 3
    /\ result = Pair(FALSE, LockedMessage)
    /\ current_state = "LOCKED"
    /\ state_history = LockedByKey.e.state_history

C7_AlwaysReturnsPair ==
    call.op = "process_trigger" => result.kind = "pair"

(***************************************************************************)
(* C8: a process_trigger of kind schedule, voice_command, geofence or      *)
(* admin returns (false, "Unknown trigger type") and changes no field of   *)
(* the engine but the sensor and battery readings.                         *)
(***************************************************************************)
C8_UnrecognizedKinds ==
    [][ ( /\ Calling("process_trigger")
          /\ call'.kind \in {"schedule", "voice_command", "geofence", "admin"} )
        => /\ result' = Pair(FALSE, Str("Unknown trigger type"))
           /\ UNCHANGED <<rejectionFrame, lockout_start_time, failed_attempts>>
      ]_vars

(***************************************************************************)
(* C9: the lockout window is present only in LOCKOUT: current_state #      *)
(* LOCKOUT implies lockout_start_time is None.                             *)
(***************************************************************************)
C9_WindowOnlyInLockout ==
    current_state # "LOCKOUT" => lockout_start_time = NoTime

(***************************************************************************)
(* C10: while current_state = LOCKOUT and now - lockout_start_time <       *)
(* lockout_duration, process_trigger of any kind and payload returns       *)
(* (false, "System is in lockout mode") and changes no field of the        *)
(* engine: no sensor or battery reading, not failed_attempts, not the      *)
(* state, not the history.                                                 *)
(***************************************************************************)
C10_RejectedDuringLockout ==
    [][ ( /\ Calling("process_trigger")
          /\ current_state = "LOCKOUT"
          /\ lockout_start_time # NoTime
          /\ now - lockout_start_time < LockoutDuration )
        => /\ result' = Pair(FALSE, Str("System is in lockout mode"))
           /\ UNCHANGED engineVars ]_vars

\* a trigger was rejected one second before the lockout expires
C10_RejectedJustBeforeExpiry ==
    /\ call.op = "process_trigger"
    /\ current_state = "LOCKOUT"
    /\ lockout_start_time # NoTime
    /\ now = lockout_start_time + LockoutDuration - 1
    /\ steps = 2
    /\ result = Pair(FALSE, Str("System is in lockout mode"))

(***************************************************************************)
(* C11: when current_state = LOCKOUT and now - lockout_start_time >=       *)
(* lockout_duration, a process_trigger call first moves LOCKOUT -> LOCKED  *)
(* (one history entry, reason "Lockout period expired") and then           *)
(* dispatches the trigger against that LOCKED engine instead of rejecting  *)
(* it; while the duration has not elapsed no step leaves LOCKOUT.          *)
(***************************************************************************)
C11_ExpiredLockoutIsLeftThenDispatched ==
    [][ (current_state = "LOCKOUT" /\ lockout_start_time # NoTime)
        => IF now - lockout_start_time >= LockoutDuration
           THEN Calling("process_trigger")
                => LET entry == [timestamp |-> now,
                                 from_state |-> "LOCKOUT",
                                 to_state |-> "LOCKED",
                                 reason |-> Str("Lockout period expired"),
                                 battery_level |-> battery_level,
                                 sensors |-> sensors]
                       locked == [Engine EXCEPT
                                    !.current_state = "LOCKED",
                                    !.previous_state = "LOCKOUT",
                                    !.state_history = Append(@, entry)]
                   IN  /\ result' # Pair(FALSE, Str("System is in lockout mode"))
                       /\ Len(state_history') > Len(state_history)
                       /\ state_history'[Len(state_history) + 1] = entry
                       /\ \E drain \in DrainChoices :
                            LET out == Dispatch(
                                         UpdateSensors(locked, call'.kind, drain),
                                         call'.kind, call'.data, now)
                            IN  SetEngine(out.e) /\ result' = out.ret
           ELSE current_state' = "LOCKOUT" /\ state_history' = state_history
      ]_vars

\* at the instant the lockout expires a physical key is turned: the engine
\* leaves LOCKOUT for LOCKED and the key unlocks it
C11_KeyTurnedAtExpiry ==
    /\ Triggered("physical_key")
    /\ now = lockout_start_time + LockoutDuration
    /\ result = Pair(TRUE, Str("Physical key unlock"))
    /\ current_state = "UNLOCKED"
    /\ previous_state = "LOCKED"
    /\ Len(state_history) = Len(InLockout.state_history) + 2
    /\ state_history[Len(state_history) - 1].from_state = "LOCKOUT"
    /\ state_history[Len(state_history) - 1].reason = Str("Lockout period expired")

(***************************************************************************)
(* C12: a keypad trigger whose code authenticates a user moves LOCKED ->   *)
(* UNLOCKED and DISARMED -> UNLOCKED, resetting failed_attempts to 0;      *)
(* moves UNLOCKED -> LOCKED, leaving failed_attempts as it was; and in     *)
(* every other state returns false with current_state and the history      *)
(* unchanged.                                                              *)
(***************************************************************************)
C12_AuthenticatedKeypad ==
    [][ ( /\ Triggering("keypad")
          /\ AuthenticateCode(authorized_users, call'.data.code, now) # None )
        => CASE current_state \in {"LOCKED", "DISARMED"} ->
                    /\ result'.kind = "pair" /\ result'.success
                    /\ current_state' = "UNLOCKED"
                    /\ failed_attempts' = 0
             [] current_state = "UNLOCKED" ->
                    /\ result'.kind = "pair" /\ result'.success
                    /\ current_state' = "LOCKED"
                    /\ failed_attempts' = failed_attempts
             [] OTHER ->
                    /\ result'.kind = "pair" /\ ~result'.success
                    /\ current_state' = current_state
                    /\ state_history' = state_history ]_vars

\* an unlock, a failed biometric attempt, and the keypad lock that keeps its count
C12_LockedKeepingCount ==
    /\ Triggered("keypad")
    /\ result = Pair(TRUE, Fmt("Locked by ", "admin"))
    /\ previous_state = "UNLOCKED"
    /\ current_state = "LOCKED"
    /\ failed_attempts = 1

\* the seed guest is registered, with the code and the expiry __init__ gave it
GuestRegistered ==
    /\ HasUser(authorized_users, "guest")
    /\ UserData(authorized_users, "guest") = SeedUsers[3]

(***************************************************************************)
(* C13: from LOCKED, a keypad trigger carrying the guest's code succeeds   *)
(* while now is before the guest's expiry (current_state becomes UNLOCKED, *)
(* failed_attempts is not incremented); after the expiry the same trigger  *)
(* fails, leaves current_state LOCKED and increments failed_attempts by 1. *)
(***************************************************************************)
C13_GuestCodeUntilExpiry ==
    [][ ( /\ Triggering("keypad")
          /\ current_state = "LOCKED"
          /\ GuestRegistered
          /\ call'.data.code = SeedUsers[3].code )
        => /\ now < SeedUsers[3].expires
              => /\ result' = Pair(TRUE, Fmt("Unlocked by ", "guest"))
                 /\ current_state' = "UNLOCKED"
                 /\ failed_attempts' <= failed_attempts
           /\ now > SeedUsers[3].expires
              => /\ result'.kind = "pair" /\ ~result'.success
                 /\ current_state' = "LOCKED"
                 /\ failed_attempts' = failed_attempts + 1 ]_vars

\* the guest's code was refused one second after the expiry
C13_GuestRefusedAfterExpiry ==
    /\ Triggered("keypad")
    /\ call.data.code = SeedUsers[3].code
    /\ GuestRegistered
    /\ now = SeedUsers[3].expires + 1
    /\ ~result.success
    /\ current_state = "LOCKED"
    /\ failed_attempts = 1

(***************************************************************************)
(* C14: a user that carries an expiry is valid for code authentication     *)
(* only while now < expiry: at now = expiry and at every later instant,    *)
(* authenticate_code with that user's code returns no user, so a keypad    *)
(* trigger with that code is refused.                                      *)
(***************************************************************************)
C14_NoUserFromExpiryOn ==
    [][ ( /\ Triggering("keypad")
          /\ \E i \in 1..Len(authorized_users) :
                /\ authorized_users[i].code = call'.data.code
                /\ authorized_users[i].expires # NoTime
                /\ now >= authorized_users[i].expires )
        => /\ AuthenticateCode(authorized_users, call'.data.code, now) = None
           /\ result'.kind = "pair" /\ ~result'.success ]_vars

(***************************************************************************)
(* C15: authenticate_biometric never returns a user that has no biometric  *)
(* identifier, whatever biometric_data is submitted (absent, empty and     *)
(* null included): a biometric trigger whose data is the identifier of no  *)
(* user counts as an authentication failure, and a biometric trigger that  *)
(* succeeds was authenticated as a user that has an identifier.            *)
(***************************************************************************)
C15_NoIdentifierNoMatch ==
    [][ Triggering("biometric")
        => LET biometric_data == Get(call'.data, "biometric_data", "")
               enrolled == { i \in 1..Len(authorized_users) :
                               authorized_users[i].biometric # None }
               user == AuthenticateBiometric(authorized_users, biometric_data)
           IN  /\ user # None
                  => UserData(authorized_users, user).biometric # None
               /\ (\A i \in enrolled :
                      authorized_users[i].biometric # biometric_data)
                  => /\ result' = Pair(FALSE, Str("Biometric authentication failed"))
                     /\ failed_attempts' = failed_attempts + 1
                     /\ current_state' = current_state ]_vars

(***************************************************************************)
(* C16: a proximity trigger changes current_state only when user_id is a   *)
(* registered user of level >= USER and current_state = LOCKED, and the    *)
(* result is then UNLOCKED; for an unregistered id, a GUEST-level user or  *)
(* any other current_state it returns (false, "Unauthorized proximity      *)
(* access") with current_state, the history and failed_attempts unchanged. *)
(***************************************************************************)
C16_ProximityUnlocksLockedForUsers ==
    [][ Triggering("proximity")
        => LET user_id == Get(call'.data, "user_id", "")
           IN  IF /\ HasUser(authorized_users, user_id)
                  /\ UserData(authorized_users, user_id).level >= USER
                  /\ current_state = "LOCKED"
               THEN /\ current_state' = "UNLOCKED"
                    /\ result'.kind = "pair" /\ result'.success
               ELSE /\ result' = Pair(FALSE, Str("Unauthorized proximity access"))
                    /\ current_state' = current_state
                    /\ state_history' = state_history
                    /\ failed_attempts' = failed_attempts ]_vars

\* the guest came near the LOCKED door and was refused
C16_GuestRefusedAtLockedDoor ==
    /\ Triggered("proximity")
    /\ call.data.user_id = "guest"
    /\ HasUser(authorized_users, "guest")
    /\ current_state = "LOCKED"
    /\ sensors.proximity_sensor
    /\ result = Pair(FALSE, Str("Unauthorized proximity access"))

\* what a refused trigger leaves alone, the sensor and battery readings apart
refusalFrame ==
    <<rejectionFrame, lockout_start_time, failed_attempts>>

(***************************************************************************)
(* C17: a mobile_app trigger from a user_id that is not in the registry    *)
(* returns (false, "Unauthorized user") with no state change; arm succeeds *)
(* only from DISARMED (to ARMED) and disarm only from ARMED (to DISARMED), *)
(* each only for a registered user of level >= USER, so a GUEST-level user *)
(* never arms or disarms; on a newly constructed engine arm by admin       *)
(* succeeds with current_state = ARMED.                                    *)
(***************************************************************************)
C17_ArmAndDisarmNeedUserLevel ==
    [][ Triggering("mobile_app")
        => LET user_id == Get(call'.data, "user_id", "")
               command == Get(call'.data, "command", "")
               registered == HasUser(authorized_users, user_id)
               entitled ==
                   registered /\ UserData(authorized_users, user_id).level >= USER
           IN  /\ result'.kind = "pair"
               /\ ~registered
                  => /\ result' = Pair(FALSE, Str("Unauthorized user"))
                     /\ UNCHANGED refusalFrame
               /\ command = "arm"
                  => IF entitled /\ current_state = "DISARMED"
                     THEN result'.success /\ current_state' = "ARMED"
                     ELSE ~result'.success /\ UNCHANGED refusalFrame
               /\ command = "disarm"
                  => IF entitled /\ current_state = "ARMED"
                     THEN result'.success /\ current_state' = "DISARMED"
                     ELSE ~result'.success /\ UNCHANGED refusalFrame
               /\ (current_state' = "ARMED" /\ current_state # "ARMED")
                  => command = "arm" /\ entitled
               /\ (current_state = "ARMED" /\ current_state' # "ARMED")
                  => command = "disarm" /\ entitled ]_vars

\* the first call on a newly constructed engine: arm by admin
C17_AdminArmedNewEngine ==
    /\ steps = 1
    /\ Triggered("mobile_app")
    /\ call.data = [command |-> "arm", user_id |-> "admin"]
    /\ result = Pair(TRUE, Fmt("System armed by ", "admin"))
    /\ current_state = "ARMED"
    /\ previous_state = "DISARMED"

(***************************************************************************)
(* C18: a physical_key trigger needs no credential: it moves LOCKED ->     *)
(* UNLOCKED and UNLOCKED -> LOCKED, so the second of two consecutive       *)
(* physical_key triggers starting in LOCKED or UNLOCKED restores the       *)
(* original current_state; in every other state it returns (false,         *)
(* "Physical key not applicable in current state") with current_state and  *)
(* the history unchanged.                                                  *)
(***************************************************************************)
C18_PhysicalKeyToggles ==
    [][ Triggering("physical_key")
        => /\ CASE current_state = "LOCKED" ->
                      /\ result' = Pair(TRUE, Str("Physical key unlock"))
                      /\ current_state' = "UNLOCKED"
                 [] current_state = "UNLOCKED" ->
                      /\ result' = Pair(TRUE, Str("Physical key lock"))
                      /\ current_state' = "LOCKED"
                 [] OTHER ->
                      /\ result' = Pair(FALSE,
                               Str("Physical key not applicable in current state"))
                      /\ current_state' = current_state
                      /\ state_history' = state_history
           /\ (Triggered("physical_key") /\ result.success)
              => /\ result'.success
                 /\ current_state' = previous_state
                 /\ current_state' = state_history[Len(state_history)].from_state
      ]_vars

\* the key was turned twice on an UNLOCKED door: locked, then unlocked again
C18_KeyTurnedTwice ==
    /\ Triggered("physical_key")
    /\ result = Pair(TRUE, Str("Physical key unlock"))
    /\ current_state = "UNLOCKED"
    /\ Len(state_history) >= 3
    /\ state_history[Len(state_history) - 1].reason = Str("Physical key lock")
    /\ state_history[Len(state_history) - 1].from_state = "UNLOCKED"
    /\ state_history[Len(state_history)].reason = Str("Physical key unlock")

(***************************************************************************)
(* C19: an emergency trigger of subtype fire_alarm, medical or             *)
(* power_failure succeeds exactly when current_state has a row for the     *)
(* emergency event (LOCKED alone has one), moving to EMERGENCY_UNLOCK;     *)
(* from every other state (UNLOCKED, ARMED, DISARMED, TAMPERED, ...) it    *)
(* returns false with current_state unchanged, and any other subtype fails *)
(* in every state.                                                         *)
(***************************************************************************)
C19_EmergencyOnlyFromLocked ==
    [][ /\ {s \in LockState : HasTransition(s, "emergency")} = {"LOCKED"}
        /\ Triggering("emergency")
           => LET emergency_type == Get(call'.data, "emergency_type", "")
              IN  /\ result'.kind = "pair"
                  /\ IF /\ emergency_type \in {"fire_alarm", "medical", "power_failure"}
                        /\ current_state = "LOCKED"
                     THEN /\ result'.success
                          /\ current_state' = "EMERGENCY_UNLOCK"
                          /\ previous_state' = "LOCKED"
                     ELSE /\ ~result'.success
                          /\ current_state' = current_state
                          /\ state_history' = state_history ]_vars

\* a medical emergency was declared at a LOCKED door
C19_MedicalEmergencyUnlocked ==
    /\ Triggered("emergency")
    /\ call.data.emergency_type = "medical"
    /\ result = Pair(TRUE, Str("Emergency unlock for medical emergency"))
    /\ previous_state = "LOCKED"
    /\ current_state = "EMERGENCY_UNLOCK"
    /\ state_history[Len(state_history)].reason = Str("Medical emergency unlock")

(***************************************************************************)
(* C20: a system trigger changes current_state only in these cases:        *)
(* auto_lock when current_state = UNLOCKED and now - last_unlock_time >=   *)
(* auto_lock_delay (to LOCKED); low_battery when the battery level the     *)
(* handler reads is below 20 and current_state = LOCKED (to LOW_BATTERY);  *)
(* maintenance_mode from LOCKED or UNLOCKED (to MAINTENANCE);              *)
(* connectivity_lost from LOCKED (to OFFLINE).  With an unmet precondition *)
(* or any other event name it returns false and current_state and the      *)
(* history are unchanged: the lock never auto-locks before the delay has   *)
(* elapsed.                                                                *)
(***************************************************************************)
C20_SystemEventPreconditions ==
    [][ Triggering("system")
        => LET event == Get(call'.data, "event", "")
               moves(to) == /\ result'.kind = "pair" /\ result'.success
                            /\ current_state' = to
                            /\ previous_state' = current_state
           IN  CASE /\ event = "auto_lock"
                    /\ current_state = "UNLOCKED"
                    /\ last_unlock_time # NoTime
                    /\ now - last_unlock_time >= AutoLockDelay -> moves("LOCKED")
                 [] /\ event = "low_battery"
                    /\ battery_level' < LowBatteryThreshold
                    /\ current_state = "LOCKED" -> moves("LOW_BATTERY")
                 [] /\ event = "maintenance_mode"
                    /\ current_state \in {"LOCKED", "UNLOCKED"} -> moves("MAINTENANCE")
                 [] /\ event = "connectivity_lost"
                    /\ current_state = "LOCKED" -> moves("OFFLINE")
                 [] OTHER -> /\ result'.kind = "pair" /\ ~result'.success
                             /\ current_state' = current_state
                             /\ state_history' = state_history ]_vars

\* the drain of the low_battery trigger itself took the level below the
\* threshold, and the LOCKED engine went to LOW_BATTERY
C20_WentToLowBattery ==
    /\ Triggered("system")
    /\ call.data.event = "low_battery"
    /\ result = Pair(TRUE, Str("Low battery warning"))
    /\ previous_state = "LOCKED"
    /\ current_state = "LOW_BATTERY"
    /\ battery_level = LowBatteryThreshold + DrainMin - DrainMax

(***************************************************************************)
(* C21: a sensor trigger moves the device to TAMPERED in exactly these     *)
(* cases: tamper_sensor with a true value while LOCKED or UNLOCKED,        *)
(* motion_sensor with a true value while ARMED, door_sensor with a false   *)
(* (opened) value while LOCKED; for every other combination of sensor,     *)
(* value and current_state (tamper_sensor true while ARMED or DISARMED     *)
(* included) it returns false and current_state, the history and           *)
(* intrusion_detected are unchanged.                                       *)
(***************************************************************************)
C21_SensorTamperCases ==
    [][ Triggering("sensor")
        => LET sensor == Get(call'.data, "sensor", "")
               value == Get(call'.data, "value", None)
           IN  IF \/ /\ sensor = "tamper_sensor" /\ Truthy(value)
                     /\ current_state \in {"LOCKED", "UNLOCKED"}
                  \/ /\ sensor = "motion_sensor" /\ Truthy(value)
                     /\ current_state = "ARMED"
                  \/ /\ sensor = "door_sensor" /\ ~Truthy(value)
                     /\ current_state = "LOCKED"
               THEN /\ result'.kind = "pair" /\ result'.success
                    /\ current_state' = "TAMPERED"
                    /\ previous_state' = current_state
                    /\ intrusion_detected'
               ELSE /\ result'.kind = "pair" /\ ~result'.success
                    /\ current_state' = current_state
                    /\ state_history' = state_history
                    /\ intrusion_detected' = intrusion_detected ]_vars

\* the door sensor reported the LOCKED door opened
C21_LockedDoorOpened ==
    /\ Triggered("sensor")
    /\ call.data = [sensor |-> "door_sensor", value |-> "False"]
    /\ result = Pair(TRUE, Str("Unauthorized door opening"))
    /\ previous_state = "LOCKED"
    /\ current_state = "TAMPERED"
    /\ intrusion_detected

(***************************************************************************)
(* C22: in every reachable state the history holds between 1 and 1000      *)
(* entries, and after k successful transitions since construction its      *)
(* length is min(1000, k + 1): after 1005 successful transitions it is     *)
(* exactly 1000.                                                           *)
(***************************************************************************)
C22_HistoryLength ==
    /\ result.success
    /\ Len(state_history) >= 1
    /\ Len(state_history) <= 1000
    /\ Len(state_history) = IF steps + 1 < 1000 THEN steps + 1 ELSE 1000
    /\ steps = 1005 => Len(state_history) = 1000

\* 1005 transitions were made, and the entry of the construction is gone
C22_After1005Transitions ==
    /\ steps = 1005
    /\ Len(state_history) = 1000
    /\ state_history[1].from_state # None
    /\ state_history[1000].timestamp = now - 1

(***************************************************************************)
(* C23: the history is append-only with FIFO eviction: every operation     *)
(* leaves the recorded entries as they are and in their order, adds new    *)
(* entries only at the end, and removes entries only from the front and    *)
(* only when the cap would be exceeded, so the retained entries are the    *)
(* most recent ones in chronological order.                                *)
(***************************************************************************)
C23_AppendOnlyFifo ==
    [][ \E added \in 0..2 :
          LET old == Len(state_history)
              new == Len(state_history')
              evicted == IF old + added > 1000 THEN old + added - 1000 ELSE 0
          IN  /\ new = old + added - evicted
              /\ SubSeq(state_history', 1, new - added)
                   = SubSeq(state_history, evicted + 1, old)
              /\ \A i \in (new - added + 1)..new :
                    /\ state_history'[i].timestamp = now
                    /\ state_history'[i].timestamp >= state_history[old].timestamp
              /\ added > 0 => state_history'[new].to_state = current_state'
              /\ current_state' # current_state => added > 0 ]_vars

\* the construction entry and the first three transitions have been evicted
C23_FourEntriesEvicted ==
    /\ steps = 1003
    /\ Len(state_history) = 1000
    /\ state_history[1].timestamp = 3
    /\ state_history[2].timestamp = 4
    /\ state_history[1000].timestamp = 1002

(***************************************************************************)
(* C24: reset_security called with a code that does not authenticate as    *)
(* the user "admin" (a code matching nobody, another user's code, the code *)
(* of an expired admin) returns false and leaves every field of the engine *)
(* unchanged: failed_attempts, the lockout window, intrusion_detected,      *)
(* current_state and the history included.                                 *)
(***************************************************************************)
C24_RefusedResetChangesNothing ==
    [][ ( /\ Calling("reset_security")
          /\ AuthenticateCode(authorized_users, call'.data.admin_code, now)
               # "admin" )
        => /\ result' = Bool(FALSE)
           /\ UNCHANGED engineVars ]_vars

\* the admin's code was refused after the admin's expiry
C24_ExpiredAdminRefused ==
    /\ call.op = "reset_security"
    /\ call.data.admin_code = UserData(authorized_users, "admin").code
    /\ UserData(authorized_users, "admin").expires # NoTime
    /\ now > UserData(authorized_users, "admin").expires
    /\ result = Bool(FALSE)

besidesUsers ==
    <<current_state, previous_state, state_history, battery_level,
      failed_attempts, lockout_start_time, intrusion_detected, sensors,
      last_unlock_time>>

(***************************************************************************)
(* C26: remove_user("admin") returns false and leaves the registry         *)
(* unchanged, so "admin" is a registry key in every reachable state;       *)
(* remove_user of any other id in the registry returns true and removes    *)
(* exactly that id, after which no keypad, biometric, proximity or         *)
(* mobile_app trigger is accepted as that id; remove_user of an id that is *)
(* not in the registry returns false.                                      *)
(***************************************************************************)
C26_RemoveUserSparesAdmin ==
    [][ /\ HasUser(authorized_users, "admin")
        /\ HasUser(authorized_users', "admin")
        /\ Calling("remove_user")
           => LET user_id == call'.data.user_id
              IN  /\ UNCHANGED besidesUsers
                  /\ IF user_id # "admin" /\ HasUser(authorized_users, user_id)
                     THEN /\ result' = Bool(TRUE)
                          /\ ~HasUser(authorized_users', user_id)
                          /\ Len(authorized_users') = Len(authorized_users) - 1
                          /\ \A i \in 1..Len(authorized_users) :
                                authorized_users[i].id # user_id
                                => \E j \in 1..Len(authorized_users') :
                                      authorized_users'[j] = authorized_users[i]
                     ELSE /\ result' = Bool(FALSE)
                          /\ authorized_users' = authorized_users
        /\ ( /\ Calling("process_trigger")
             /\ call'.kind \in {"keypad", "biometric", "proximity", "mobile_app"} )
           => \A user_id \in {SeedUsers[i].id : i \in 1..Len(SeedUsers)} :
                 ~HasUser(authorized_users, user_id)
                 => /\ ~( /\ result'.kind = "pair"
                          /\ result'.success
                          /\ result'.message[2] = user_id )
                    /\ ( \/ Get(call'.data, "user_id", "") = user_id
                         \/ \E i \in 1..Len(SeedUsers) :
                               /\ SeedUsers[i].id = user_id
                               /\ Get(call'.data, "code", "") = SeedUsers[i].code )
                       => (result'.kind = "pair" /\ ~result'.success)
      ]_vars

\* the guest was removed, and the guest's code is refused before its expiry
C26_RemovedGuestRefused ==
    /\ Triggered("keypad")
    /\ call.data.code = SeedUsers[3].code
    /\ ~HasUser(authorized_users, "guest")
    /\ HasUser(authorized_users, "admin")
    /\ now < SeedUsers[3].expires
    /\ result.kind = "pair" /\ ~result.success
    /\ failed_attempts = 1

(***************************************************************************)
(* C27: get_system_status changes no field of the engine, except in        *)
(* LOCKOUT with an expired lockout window, where it performs LOCKOUT ->    *)
(* LOCKED; in every state reachable from a newly constructed engine it is  *)
(* a pure read that reports is_locked_out = false, and the current_state,  *)
(* previous_state, failed_attempts, intrusion flag and user count it       *)
(* returns are the engine's.                                               *)
(***************************************************************************)
C27_StatusIsAPureRead ==
    [][ Calling("get_system_status")
        => IF /\ current_state = "LOCKOUT"
              /\ lockout_start_time # NoTime
              /\ now - lockout_start_time >= LockoutDuration
           THEN /\ current_state' = "LOCKED"
                /\ previous_state' = "LOCKOUT"
                /\ Len(state_history') = Len(state_history) + 1
                /\ UNCHANGED <<battery_level, failed_attempts, lockout_start_time,
                               intrusion_detected, authorized_users, sensors,
                               last_unlock_time>>
           ELSE /\ UNCHANGED engineVars
                /\ result'.kind = "dict"
                /\ current_state # "LOCKOUT"
                   => /\ result'.value.is_locked_out = FALSE
                      /\ result'.value.current_state = current_state
                      /\ result'.value.previous_state = previous_state
                      /\ result'.value.failed_attempts = failed_attempts
                      /\ result'.value.intrusion_detected = intrusion_detected
                      /\ result'.value.authorized_users = Len(authorized_users)
      ]_vars

\* the status was read after a user was added and an attempt had failed
C27_StatusReadAfterChanges ==
    /\ call.op = "get_system_status"
    /\ result.value.authorized_users = Len(SeedUsers) + 1
    /\ result.value.failed_attempts = 1
    /\ result.value.is_locked_out = FALSE
    /\ result.value.current_state = "DISARMED"
    /\ failed_attempts = 1

(***************************************************************************)
(* C28: a newly constructed engine has current_state = DISARMED,           *)
(* previous_state = None, failed_attempts = 0, no lockout window,          *)
(* intrusion_detected = false, a registry of exactly admin, user1 and      *)
(* guest (the guest alone carrying an expiry) and a history of exactly one *)
(* entry with from = None, to = DISARMED and reason "System                *)
(* initialization"; no later history entry has from = None.                *)
(***************************************************************************)
C28_NewEngine ==
    /\ steps = 0
       => /\ current_state = "DISARMED"
          /\ previous_state = None
          /\ failed_attempts = 0
          /\ lockout_start_time = NoTime
          /\ ~intrusion_detected
          /\ [i \in 1..Len(authorized_users) |-> authorized_users[i].id]
               = <<"admin", "user1", "guest">>
          /\ \A i \in 1..Len(authorized_users) :
                authorized_users[i].expires # NoTime
                <=> authorized_users[i].id = "guest"
          /\ Len(state_history) = 1
    /\ state_history[1].from_state = None
    /\ state_history[1].to_state = "DISARMED"
    /\ state_history[1].reason = Str("System initialization")
    /\ \A i \in 2..Len(state_history) : state_history[i].from_state # None

\* three transitions later the first entry is still the only one from None
C28_ThreeTransitionsLater ==
    /\ steps = 3
    /\ Len(state_history) = 4
    /\ state_history[1].from_state = None
    /\ state_history[2].from_state = "DISARMED"
    /\ previous_state # None

(***************************************************************************)
(* C29: battery_level stays within 0 to 100 in every reachable state, for  *)
(* any number of process_trigger calls.                                    *)
(***************************************************************************)
C29_BatteryWithinRange ==
    battery_level >= 0 /\ battery_level <= 10000

(***************************************************************************)
(* C34: once current_state is neither DISARMED nor ARMED no operation makes *)
(* it DISARMED or ARMED again, and every arm or disarm command sent from   *)
(* then on returns success = false.                                        *)
(***************************************************************************)
C34_DisarmedAndArmedAreLeftForGood ==
    [][ current_state \notin {"DISARMED", "ARMED"}
        => /\ current_state' \notin {"DISARMED", "ARMED"}
           /\ ( /\ Triggering("mobile_app")
                /\ Get(call'.data, "command", "") \in {"arm", "disarm"}
                => /\ result'.kind = "pair"
                   /\ result'.success = FALSE ) ]_vars

\* the admin asked to arm a door that had been unlocked and locked again
C34_ArmRefusedAfterLocking ==
    /\ Triggered("mobile_app")
    /\ call.data = [command |-> "arm", user_id |-> "admin"]
    /\ result = Pair(FALSE, Str("Arm failed"))
    /\ current_state = "LOCKED"
    /\ Len(state_history) = 3

(***************************************************************************)
(* C35: with the operations called one after the other, the last history   *)
(* entry goes from previous_state to current_state, every entry after the  *)
(* initial one goes from a state to a state that some row of the table     *)
(* joins, and every entry starts in the state the entry before it ended in.*)
(***************************************************************************)
C35_HistoryTellsTheStates ==
    LET h == state_history
    IN  /\ Len(h) >= 1
        /\ h[Len(h)].to_state = current_state
        /\ h[Len(h)].from_state = previous_state
        /\ \A i \in 2..Len(h) :
              /\ \E r \in TransitionMatrix :
                    r.from = h[i].from_state /\ r.to = h[i].to_state
              /\ h[i].from_state = h[i - 1].to_state

\* armed, then an intrusion, then the admin's reset: three entries after the
\* initial one
C35_ArmedIntrusionReset ==
    /\ call.op = "reset_security"
    /\ result = Bool(TRUE)
    /\ Len(state_history) = 4
    /\ state_history[3].to_state = "TAMPERED"
    /\ current_state = "LOCKED"
    /\ previous_state = "TAMPERED"

(***************************************************************************)
(* C37: whenever current_state is TAMPERED, intrusion_detected is true; and *)
(* a call that clears the flag does not end in TAMPERED.                    *)
(***************************************************************************)
C37_TamperedMeansIntrusionDetected ==
    /\ current_state = "TAMPERED" => intrusion_detected
    /\ [][ /\ current_state' = "TAMPERED" => intrusion_detected'
           /\ intrusion_detected /\ ~intrusion_detected'
              => /\ Calling("reset_security")
                 /\ result' = Bool(TRUE)
                 /\ current_state' # "TAMPERED" ]_vars

\* the admin's reset of a tampered door
C37_TamperedDoorReset ==
    /\ call.op = "reset_security"
    /\ result = Bool(TRUE)
    /\ previous_state = "TAMPERED"
    /\ current_state = "LOCKED"
    /\ ~intrusion_detected

(***************************************************************************)
(* C33: in TAMPERED, EMERGENCY_UNLOCK, MAINTENANCE, LOW_BATTERY and OFFLINE *)
(* no process_trigger call changes current_state, and the only call that   *)
(* changes it is a reset_security that returns True in TAMPERED and ends   *)
(* in LOCKED: the other four states are never left.                        *)
(***************************************************************************)
C33_SpecialStatesAreLeftOnlyByReset ==
    [][ (current_state \in SpecialStates /\ current_state' # current_state)
        => ( /\ current_state = "TAMPERED"
             /\ Calling("reset_security")
             /\ result' = Bool(TRUE)
             /\ current_state' = "LOCKED" ) ]_vars

\* battery_replaced sent to the engine in LOW_BATTERY
C33_BatteryReplacedIgnored ==
    /\ Triggered("system")
    /\ call.data = [event |-> "battery_replaced"]
    /\ result = Pair(FALSE, Fmt("Unknown system event: ", "battery_replaced"))
    /\ current_state = "LOW_BATTERY"

(***************************************************************************)
(* C36: no process_trigger call takes the lock from LOCKED to UNLOCKED on   *)
(* the credential of a registered user whose expiry has passed: that       *)
(* user's code on the keypad, that user's biometric identifier, that       *)
(* user's id in a proximity trigger or in a mobile_app unlock command.     *)
(***************************************************************************)
\* the trigger bears a credential of the registered user u
BearsCredentialOf(u, trigger_type, data) ==
    \/ trigger_type = "keypad" /\ Get(data, "code", "") = u.code
    \/ /\ trigger_type = "biometric"
       /\ u.biometric # None
       /\ Get(data, "biometric_data", "") = u.biometric
    \/ trigger_type = "proximity" /\ Get(data, "user_id", "") = u.id
    \/ /\ trigger_type = "mobile_app"
       /\ Get(data, "command", "") = "unlock"
       /\ Get(data, "user_id", "") = u.id

C36_ExpiredUserCannotUnlock ==
    [][ ( /\ Calling("process_trigger")
          /\ current_state = "LOCKED"
          /\ current_state' = "UNLOCKED" )
        => ~ \E i \in 1..Len(authorized_users) :
                 /\ authorized_users[i].expires # NoTime
                 /\ now > authorized_users[i].expires
                 /\ BearsCredentialOf(authorized_users[i], call'.kind,
                                      call'.data) ]_vars

(***************************************************************************)
(* C38: failed_attempts grows by one in a processed keypad trigger whose   *)
(* code authenticates no user and in a processed biometric trigger whose   *)
(* data matches no user, whatever its value (the biometric path stops at   *)
(* no maximum); a keypad trigger that unlocks and a reset_security that    *)
(* returns True set it to 0; every other step leaves it as it was.         *)
(***************************************************************************)
\* the step is a process_trigger call that the lockout gate let through
Processing(trigger_type) ==
    /\ Triggering(trigger_type)
    /\ result' # Pair(FALSE, Str("System is in lockout mode"))

\* some registered user has the code and is not past the expiry check
CodeAuthenticates(code) ==
    \E i \in 1..Len(authorized_users) :
        /\ authorized_users[i].code = code
        /\ ~ ( /\ authorized_users[i].expires # NoTime
               /\ now > authorized_users[i].expires )

\* some registered user has the biometric
BiometricMatches(biometric_data) ==
    \E i \in 1..Len(authorized_users) :
        authorized_users[i].biometric = biometric_data

C38_FailedAttemptsFrame ==
    [][ failed_attempts' =
          IF \/ /\ Processing("keypad")
                /\ ~CodeAuthenticates(Get(call'.data, "code", ""))
             \/ /\ Processing("biometric")
                /\ ~BiometricMatches(Get(call'.data, "biometric_data", ""))
          THEN failed_attempts + 1
          ELSE IF \/ /\ Processing("keypad")
                     /\ result'.success
                     /\ current_state' = "UNLOCKED"
                  \/ Calling("reset_security") /\ result' = Bool(TRUE)
               THEN 0
               ELSE failed_attempts ]_vars

\* two unmatched biometrics after the two wrong codes: the counter is past
\* max_failed_attempts and the engine is where it was
C38_CounterPastMax ==
    /\ Triggered("biometric")
    /\ result = Pair(FALSE, Str("Biometric authentication failed"))
    /\ failed_attempts = MaxFailedAttempts + 1
    /\ current_state = "DISARMED"
    /\ lockout_start_time = NoTime

(***************************************************************************)
(* C39: a process_trigger call that the lockout gate lets through lowers   *)
(* battery_level by an amount between the least and the greatest drain,    *)
(* whether it returns success or not, and every history entry the call     *)
(* appends records the level after that drain; no step of any operation    *)
(* raises battery_level.                                                   *)
(***************************************************************************)
C39_DrainBeforeHandler ==
    [][ /\ battery_level' <= battery_level
        /\ ( /\ Calling("process_trigger")
             /\ result' # Pair(FALSE, Str("System is in lockout mode")) )
           => /\ battery_level - battery_level' \in DrainMin..DrainMax
              /\ \A i \in (Len(state_history) + 1)..Len(state_history') :
                    state_history'[i].battery_level = battery_level' ]_vars

\* a trigger no handler takes drained the most, then the admin's code
\* drained the least and unlocked: the entry records the level after both
C39_EntryAfterTwoDrains ==
    /\ Triggered("keypad")
    /\ result.success
    /\ Len(state_history) = 2
    /\ battery_level = InitialBattery - DrainMax - DrainMin
    /\ state_history[2].battery_level = battery_level

(***************************************************************************)
(* C32: CarDoorLockFSM.update(key, brake, gear) returns "LOCKED" exactly   *)
(* when key and brake are both true and gear is "D" or "R", and           *)
(* "UNLOCKED" otherwise, whatever the state before the call; after the     *)
(* call the fields state and current_state both equal the returned value.  *)
(***************************************************************************)
C32_UpdateDecidesFromItsArguments ==
    call.op = "update"
    => /\ result.kind = "str"
       /\ result.value \in {"LOCKED", "UNLOCKED"}
       /\ result.value = "LOCKED"
          <=> /\ call.data.key \notin {"False", None}
              /\ call.data.brake \notin {"False", None}
              /\ call.data.gear \in {"D", "R"}
       /\ legacy.state = result.value
       /\ legacy.current_state = result.value

\* a third call in a row, in reverse with the brake released: unlocked
C32_UnlockedAfterLocked ==
    /\ call.op = "update"
    /\ call.data = [key |-> "True", brake |-> "False", gear |-> "R"]
    /\ result.value = "UNLOCKED"
    /\ legacy = [state |-> "UNLOCKED", current_state |-> "UNLOCKED"]
    /\ steps = 3

(***************************************************************************)
(* C40: handle_emergency for FIRE_ALARM or MEDICAL_EMERGENCY, called on an *)
(* engine in LOCKED, returns success and leaves the engine in              *)
(* EMERGENCY_UNLOCK.                                                       *)
(***************************************************************************)
C40_FireAndMedicalUnlock ==
    [][ ( /\ Calling("handle_emergency")
          /\ call'.data.emergency_type \in {"fire_alarm", "medical_emergency"}
          /\ current_state = "LOCKED" )
        => ( /\ result'.success
             /\ current_state' = "EMERGENCY_UNLOCK" ) ]_vars

(***************************************************************************)
(* C31: when each process_trigger call excludes every other, then whenever *)
(* no call is in progress every history entry after the initial one joins  *)
(* two states that a row of the table joins, and the last entry goes from  *)
(* previous_state to current_state; when two calls may interleave between  *)
(* the statements of _transition_to, a state in which this fails is        *)
(* reached (the witness).                                                  *)
(***************************************************************************)
\* no thread is in a call
Quiescent == \A th \in Threads : At(th, "idle")

\* some history entry after the initial one matches no row of the table
EntryMatchesNoRow ==
    \E i \in 2..Len(state_history) :
        ~ \E r \in TransitionMatrix :
              /\ r.from = state_history[i].from_state
              /\ r.to = state_history[i].to_state

\* previous_state or current_state disagrees with the last history entry
StatesDisagreeWithHistory ==
    \/ state_history[Len(state_history)].to_state # current_state
    \/ state_history[Len(state_history)].from_state # previous_state

C31_ExclusiveCallsKeepHistoryAndStatesTogether ==
    (exclusive /\ Quiescent)
    => ~EntryMatchesNoRow /\ ~StatesDisagreeWithHistory

\* interleaved calls have returned and left an entry that matches no row
\* and a last entry that does not start in previous_state
C31_InterleavedCallsLeftNoRowEntry ==
    /\ ~exclusive
    /\ Quiescent
    /\ EntryMatchesNoRow
    /\ state_history[Len(state_history)].to_state = current_state
    /\ state_history[Len(state_history)].from_state # previous_state

====
